---- MODULE Spec2Model ----
(***************************************************************************)
(* Model of the mailbox session of mcp-icloud-email: imap.Client (one      *)
(* shared IMAP connection guarded by sync.Mutex), the SMTP client, and the *)
(* delete_folder tool handler.  Concurrent callers invoke the public       *)
(* methods; every backend command is one step.                             *)
(***************************************************************************)
EXTENDS Integers, Sequences, FiniteSets, TLC

\* ---------------------------------------------------------------- bounds
NumCallers == 2
MaxUid == 2
InitMsgs == 2
\* the current day; days are numbered from 1
Today == 3

\* ------------------------------------------------------------- constants
Callers == 1..NumCallers
NoOne == 0
NoFolder == "(none)"
\* a nil *time.Time in EmailFilters
NoDate == 0
Folders == {"INBOX", "Sent", "Deleted Messages", "Trash", "Drafts"}
\* the folders the tool documentation calls system folders
SystemFolders == {"INBOX", "Sent", "Trash"}
draftFolders == <<"Drafts", "INBOX.Drafts", "[Gmail]/Drafts">>
SeenFlag == "\\Seen"
DeletedFlag == "\\Deleted"
DraftFlag == "\\Draft"
FlaggedFlag == "\\Flagged"
\* identifiers and folder names that callers pass
EmailIDs == {<<"1">>, <<"2", "a">>, <<"a">>}
SrcFolders == {"INBOX", "Trash"}
\* EmailFilters values (Since, LastDays, Before, UnreadOnly) that callers pass
FilterArgs == {<<NoDate, 0, NoDate, FALSE>>, <<NoDate, 0, NoDate, TRUE>>,
               <<2, 0, NoDate, FALSE>>, <<NoDate, Today - 1, NoDate, FALSE>>,
               <<2, Today - 1, NoDate, FALSE>>, <<2, Today - 1, NoDate, TRUE>>,
               <<NoDate, 0, 2, FALSE>>}
FlagArgs == {<<"important", "">>, <<"important", "red">>, <<"deadline", "blue">>,
             <<"none", "">>,
             <<"bogus", "">>, <<"important", "bogus">>, <<"none", "bogus">>}
\* 2^32 - 1 = 4294967295, held as two five-digit halves
MaxUint32Hi == 42949
MaxUint32Lo == 67295

VARIABLES mu, selected, loggedOut, exists, mbox, uidnext,
          pc, op, trace, res, pre

backend == <<selected, loggedOut, exists, mbox, uidnext>>
vars == <<mu, selected, loggedOut, exists, mbox, uidnext, pc, op, trace, res, pre>>

\* ------------------------------------------------- identifier conversion
Digit(ch) == CASE ch = "0" -> 0 [] ch = "1" -> 1 [] ch = "2" -> 2
               [] ch = "3" -> 3 [] OTHER -> -1

RECURSIVE DigitPrefix(_)
DigitPrefix(s) ==
    IF s = <<>> \/ Digit(Head(s)) < 0 THEN <<>>
    ELSE <<Head(s)>> \o DigitPrefix(Tail(s))

RECURSIVE DecVal(_, _)
DecVal(s, acc) ==
    IF s = <<>> THEN acc ELSE DecVal(Tail(s), acc * 10 + Digit(Head(s)))

RECURSIVE StripZeros(_)
StripZeros(s) ==
    IF Len(s) > 1 /\ Head(s) = "0" THEN StripZeros(Tail(s)) ELSE s

\* the token exceeds 2^32 - 1
Overflows(tok) ==
    LET t == StripZeros(tok)
        n == Len(t)
    IN IF n > 10 THEN TRUE
       ELSE IF n <= 5 THEN FALSE
       ELSE LET hi == DecVal(SubSeq(t, 1, n - 5), 0)
                lo == DecVal(SubSeq(t, n - 4, n), 0)
            IN hi > MaxUint32Hi \/ (hi = MaxUint32Hi /\ lo > MaxUint32Lo)

\* fmt.Sscanf(emailID, "%d", &uid) with uid uint32: the longest run of
\* leading digits is the token; no digits, or a value over 2^32-1, is an
\* error; characters after the token are left unread.
ParseUID(id) ==
    LET tok == DigitPrefix(id) IN
    IF tok = <<>> \/ Overflows(tok) THEN [ok |-> FALSE, uid |-> 0]
    ELSE [ok |-> TRUE, uid |-> DecVal(tok, 0)]

\* ------------------------------------------------------ backend (server)
Msg(u, m, fl) == [uid |-> u, mid |-> m, flags |-> fl]

\* the day a message was sent and received: the initial message with
\* content m dates from day m, a draft from the day it is saved
DateOf(mid) == IF mid = 0 THEN Today ELSE mid

\* a command can succeed only on a live connection
Alive == ~loggedOut

CanSelect(f) == Alive /\ f \in exists

\* UID COPY of the selected folder's message u to dst (no-op for an unknown uid)
CopyResult(mb, nx, src, u, dst) ==
    LET ms == {m \in mb[src] : m.uid = u} IN
    IF ms = {} THEN [mb |-> mb, nx |-> nx]
    ELSE LET m == CHOOSE x \in ms : TRUE IN
         [mb |-> [mb EXCEPT ![dst] = @ \cup {Msg(nx[dst], m.mid, m.flags)}],
          nx |-> [nx EXCEPT ![dst] = @ + 1]]

CanCopy(src, u, dst) ==
    /\ Alive /\ src \in exists /\ dst \in exists
    /\ ((\E m \in mbox[src] : m.uid = u) => uidnext[dst] <= MaxUid)

\* UID MOVE: the copy, then the source message disappears
MoveResult(mb, nx, src, u, dst) ==
    LET r == CopyResult(mb, nx, src, u, dst) IN
    [mb |-> [r.mb EXCEPT ![src] = {m \in @ : ~(m.uid = u /\ m \in mb[src])}],
     nx |-> r.nx]

\* UID STORE +FLAGS / -FLAGS on the selected folder
StoreResult(mb, f, u, add, fl) ==
    [mb EXCEPT ![f] = {IF m.uid = u
                       THEN [m EXCEPT !.flags = IF add THEN @ \cup fl ELSE @ \ fl]
                       ELSE m : m \in @}]

\* EXPUNGE removes every message of the selected folder that carries \Deleted
ExpungeResult(mb, f) ==
    [mb EXCEPT ![f] = {m \in @ : DeletedFlag \notin m.flags}]

CanUse(f) == Alive /\ f \in exists

\* ascending list of the uids of a set of messages
RECURSIVE SortedUids(_)
SortedUids(S) ==
    IF S = {} THEN <<>>
    ELSE LET lo == CHOOSE u \in S : \A v \in S : u <= v
         IN <<lo>> \o SortedUids(S \ {lo})


\* ------------------------------------------------------- calls and frames
\* arguments and locals of one call; fields a method does not use keep
\* their defaults
Req(name) ==
    [name |-> name, folder |-> NoFolder, to |-> NoFolder, id |-> <<>>,
     flag |-> FALSE, ftype |-> "", color |-> "", limit |-> 0, offset |-> 0,
     unreadOnly |-> FALSE, since |-> NoDate, lastDays |-> 0, before |-> NoDate,
     parent |-> "", uid |-> 0, uids |-> <<>>,
     count |-> 0, held |-> NoOne]

NoReq == Req("")

Result(e) ==
    [err |-> e, wasEmpty |-> FALSE, count |-> 0, out |-> <<>>, tool |-> ""]

NoResult == Result("")

\* the observation of one backend command on the shared connection
Cmd(c, name, arg, ok) ==
    trace' = [trace EXCEPT ![c] = Append(@,
                 [cmd |-> name, arg |-> arg, ok |-> ok,
                  sel |-> selected, locked |-> (mu = c)])]

Goto(c, l) == pc' = [pc EXCEPT ![c] = l]

Return(c, r) ==
    /\ Goto(c, "ret")
    /\ res' = [res EXCEPT ![c] = r]

\* the session right after NewClient: connected, logged in, INBOX selected,
\* mutex free, no request in progress
Fresh ==
    /\ mu = NoOne
    /\ selected = "INBOX"
    /\ loggedOut = FALSE
    /\ exists = Folders
    /\ pc = [c \in Callers |-> "idle"]
    /\ op = [c \in Callers |-> NoReq]
    /\ trace = [c \in Callers |-> <<>>]
    /\ res = [c \in Callers |-> NoResult]
    /\ pre = mbox

\* the account holds InitMsgs unread messages in INBOX
Init ==
    /\ mbox = [f \in Folders |->
                 IF f = "INBOX" THEN {Msg(u, u, {}) : u \in 1..InitMsgs} ELSE {}]
    /\ uidnext = [f \in Folders |-> IF f = "INBOX" THEN InitMsgs + 1 ELSE 1]
    /\ Fresh

\* the account holds up to InitMsgs messages in INBOX, each unread, read or
\* already marked deleted (by this or another client of the account), at
\* most one message in Trash, and a Drafts folder that is empty, either new
\* or after a draft was saved and removed
InitSeq ==
    /\ \E k \in 0..InitMsgs, j \in 0..1, d \in 0..1 :
         \E fl \in [1..k -> {{}, {SeenFlag}, {DeletedFlag}}] :
            /\ mbox = [f \in Folders |->
                         IF f = "INBOX" THEN {Msg(u, u, fl[u]) : u \in 1..k}
                         ELSE IF f = "Trash" THEN {Msg(u, InitMsgs + u, {}) : u \in 1..j}
                         ELSE {}]
            /\ uidnext = [f \in Folders |->
                            IF f = "INBOX" THEN k + 1
                            ELSE IF f = "Trash" THEN j + 1
                            ELSE IF f = "Drafts" THEN d + 1 ELSE 1]
    /\ Fresh

\* sync.Mutex
\* (variant: takes the mutex without waiting for its holder)
LockNoWait(c) == mu' = c

Lock(c) == mu = NoOne /\ mu' = c

Unlock(c) == mu' = NoOne

\* callers are numbered in the order in which their requests arrive; each
\* serves one request
Arrives(c) == pc[c] = "idle" /\ \A d \in Callers : d < c => pc[d] # "idle"

\* (variant: a public method that does not take the mutex)
EnterNoLock(c, r, l) ==
    /\ mu' = mu
    /\ Goto(c, l)
    /\ op' = [op EXCEPT ![c] = r]
    /\ trace' = [trace EXCEPT ![c] = <<>>]
    /\ res' = [res EXCEPT ![c] = NoResult]
    /\ pre' = mbox
    /\ UNCHANGED backend

\* c.mu.Lock() as the first statement of a public method
Enter(c, r, l) ==
    /\ Lock(c)
    /\ Goto(c, l)
    /\ op' = [op EXCEPT ![c] = r]
    /\ trace' = [trace EXCEPT ![c] = <<>>]
    /\ res' = [res EXCEPT ![c] = NoResult]
    /\ pre' = mbox
    /\ UNCHANGED backend

\* defer c.mu.Unlock(): runs once the method has its return value
Ret(c) ==
    /\ pc[c] = "ret"
    /\ Unlock(c)
    /\ Goto(c, "done")
    /\ op' = [op EXCEPT ![c] = NoReq]
    /\ trace' = [trace EXCEPT ![c] = <<>>]
    /\ res' = [res EXCEPT ![c] = NoResult]
    /\ pre' = mbox
    /\ UNCHANGED backend

\* ------------------------------------------------------------- moveEmail
\* (variant: DeleteEmail gives up after the first trash name)
moveEmailReturnNoAlt(c, e) ==
    IF op[c].name = "MoveEmail" \/ e = ""
    THEN Return(c, Result(e)) /\ op' = op
    ELSE Return(c, Result("failed to move to trash")) /\ op' = op

\* return of moveEmail to its caller: MoveEmail passes the error on;
\* DeleteEmail retries once with the alternate trash name
moveEmailReturn(c, e) ==
    IF op[c].name = "MoveEmail" \/ e = ""
    THEN Return(c, Result(e)) /\ op' = op
    ELSE IF op[c].to = "Deleted Messages"
    THEN /\ Goto(c, "mv_select")
         /\ op' = [op EXCEPT ![c].to = "Trash"]
         /\ res' = res
    ELSE Return(c, Result("failed to move to trash")) /\ op' = op

mvSelect(c) ==
    /\ pc[c] = "mv_select"
    /\ \E ok \in BOOLEAN :
         /\ ok => CanSelect(op[c].folder)
         /\ Cmd(c, "Select", op[c].folder, ok)
         /\ selected' = IF ok THEN op[c].folder ELSE NoFolder
         /\ IF ~ok THEN moveEmailReturn(c, "failed to select folder")
            ELSE IF ~ParseUID(op[c].id).ok
            THEN moveEmailReturn(c, "invalid email ID format")
            ELSE /\ Goto(c, "mv_move")
                 /\ op' = [op EXCEPT ![c].uid = ParseUID(op[c].id).uid]
                 /\ res' = res
    /\ UNCHANGED <<mu, loggedOut, exists, mbox, uidnext, pre>>

mvMove(c) ==
    /\ pc[c] = "mv_move"
    /\ \E ok \in BOOLEAN :
         /\ ok => CanCopy(selected, op[c].uid, op[c].to)
         /\ Cmd(c, "UidMove", op[c].to, ok)
         /\ IF ok
            THEN LET r == MoveResult(mbox, uidnext, selected, op[c].uid, op[c].to)
                 IN /\ mbox' = r.mb
                    /\ uidnext' = r.nx
                    /\ moveEmailReturn(c, "")
            ELSE /\ Goto(c, "mv_copy")
                 /\ UNCHANGED <<mbox, uidnext, op, res>>
    /\ UNCHANGED <<mu, selected, loggedOut, exists, pre>>

\* (variant: the fallback goes on after a failed copy)
mvCopyIgnoreErr(c) ==
    /\ pc[c] = "mv_copy"
    /\ \E ok \in BOOLEAN :
         /\ ok => CanCopy(selected, op[c].uid, op[c].to)
         /\ Cmd(c, "UidCopy", op[c].to, ok)
         /\ LET r == CopyResult(mbox, uidnext, selected, op[c].uid, op[c].to)
            IN /\ mbox' = IF ok THEN r.mb ELSE mbox
               /\ uidnext' = IF ok THEN r.nx ELSE uidnext
         /\ Goto(c, "mv_store")
         /\ UNCHANGED <<op, res>>
    /\ UNCHANGED <<mu, selected, loggedOut, exists, pre>>

mvCopy(c) ==
    /\ pc[c] = "mv_copy"
    /\ \E ok \in BOOLEAN :
         /\ ok => CanCopy(selected, op[c].uid, op[c].to)
         /\ Cmd(c, "UidCopy", op[c].to, ok)
         /\ IF ok
            THEN LET r == CopyResult(mbox, uidnext, selected, op[c].uid, op[c].to)
                 IN /\ mbox' = r.mb
                    /\ uidnext' = r.nx
                    /\ Goto(c, "mv_store")
                    /\ UNCHANGED <<op, res>>
            ELSE /\ moveEmailReturn(c, "failed to copy email")
                 /\ UNCHANGED <<mbox, uidnext>>
    /\ UNCHANGED <<mu, selected, loggedOut, exists, pre>>

\* (variant: a failed mark-deleted is swallowed and the expunge still runs)
mvStoreSwallow(c) ==
    /\ pc[c] = "mv_store"
    /\ \E ok \in BOOLEAN :
         /\ ok => CanUse(selected)
         /\ Cmd(c, "UidStore", DeletedFlag, ok)
         /\ mbox' = IF ok THEN StoreResult(mbox, selected, op[c].uid, TRUE, {DeletedFlag})
                    ELSE mbox
         /\ Goto(c, "mv_expunge")
         /\ UNCHANGED <<op, res>>
    /\ UNCHANGED <<mu, selected, loggedOut, exists, uidnext, pre>>

mvStore(c) ==
    /\ pc[c] = "mv_store"
    /\ \E ok \in BOOLEAN :
         /\ ok => CanUse(selected)
         /\ Cmd(c, "UidStore", DeletedFlag, ok)
         /\ IF ok
            THEN /\ mbox' = StoreResult(mbox, selected, op[c].uid, TRUE, {DeletedFlag})
                 /\ Goto(c, "mv_expunge")
                 /\ UNCHANGED <<op, res>>
            ELSE /\ moveEmailReturn(c, "failed to mark email as deleted")
                 /\ UNCHANGED mbox
    /\ UNCHANGED <<mu, selected, loggedOut, exists, uidnext, pre>>

mvExpunge(c) ==
    /\ pc[c] = "mv_expunge"
    /\ \E ok \in BOOLEAN :
         /\ ok => CanUse(selected)
         /\ Cmd(c, "Expunge", "", ok)
         /\ IF ok
            THEN /\ mbox' = ExpungeResult(mbox, selected)
                 /\ moveEmailReturn(c, "")
            ELSE /\ moveEmailReturn(c, "failed to expunge")
                 /\ UNCHANGED mbox
    /\ UNCHANGED <<mu, selected, loggedOut, exists, uidnext, pre>>

moveEmail(c) ==
    mvSelect(c) \/ mvMove(c) \/ mvCopy(c) \/ mvStore(c) \/ mvExpunge(c)

MoveEmail(c) ==
    \E f \in SrcFolders, t \in SrcFolders, id \in EmailIDs :
        /\ Arrives(c)
        /\ Enter(c, [Req("MoveEmail") EXCEPT !.folder = f, !.to = t, !.id = id],
              "mv_select")

\* ----------------------------------------------------------- DeleteEmail
DeleteEmail(c) ==
    \E f \in SrcFolders, id \in EmailIDs, permanent \in BOOLEAN :
        /\ Arrives(c)
        /\ Enter(c, [Req("DeleteEmail") EXCEPT !.folder = f, !.id = id,
                                            !.flag = permanent],
              IF permanent THEN "de_select" ELSE "de_trash")

\* (variant: the non-permanent branch calls the public, locking MoveEmail)
deTrashRelock(c) ==
    /\ pc[c] = "de_trash"
    /\ Lock(c)
    /\ Goto(c, "mv_select")
    /\ op' = [op EXCEPT ![c].to = "Deleted Messages"]
    /\ UNCHANGED <<backend, trace, res, pre>>

\* the non-permanent branch calls the internal moveEmail, first with
\* trashFolder = "Deleted Messages"
deTrash(c) ==
    /\ pc[c] = "de_trash"
    /\ Goto(c, "mv_select")
    /\ op' = [op EXCEPT ![c].to = "Deleted Messages"]
    /\ UNCHANGED <<mu, backend, trace, res, pre>>

deSelect(c) ==
    /\ pc[c] = "de_select"
    /\ \E ok \in BOOLEAN :
         /\ ok => CanSelect(op[c].folder)
         /\ Cmd(c, "Select", op[c].folder, ok)
         /\ selected' = IF ok THEN op[c].folder ELSE NoFolder
         /\ IF ~ok THEN Return(c, Result("failed to select folder")) /\ op' = op
            ELSE IF ~ParseUID(op[c].id).ok
            THEN Return(c, Result("invalid email ID format")) /\ op' = op
            ELSE /\ Goto(c, "de_store")
                 /\ op' = [op EXCEPT ![c].uid = ParseUID(op[c].id).uid]
                 /\ res' = res
    /\ UNCHANGED <<mu, loggedOut, exists, mbox, uidnext, pre>>

\* (variant: the permanent delete expunges after a failed mark-deleted)
deStoreSwallow(c) ==
    /\ pc[c] = "de_store"
    /\ \E ok \in BOOLEAN :
         /\ ok => CanUse(selected)
         /\ Cmd(c, "UidStore", DeletedFlag, ok)
         /\ mbox' = IF ok THEN StoreResult(mbox, selected, op[c].uid, TRUE, {DeletedFlag})
                    ELSE mbox
         /\ Goto(c, "de_expunge")
         /\ res' = res
    /\ UNCHANGED <<mu, selected, loggedOut, exists, uidnext, op, pre>>

deStore(c) ==
    /\ pc[c] = "de_store"
    /\ \E ok \in BOOLEAN :
         /\ ok => CanUse(selected)
         /\ Cmd(c, "UidStore", DeletedFlag, ok)
         /\ IF ok
            THEN /\ mbox' = StoreResult(mbox, selected, op[c].uid, TRUE, {DeletedFlag})
                 /\ Goto(c, "de_expunge")
                 /\ res' = res
            ELSE /\ Return(c, Result("failed to mark email as deleted"))
                 /\ UNCHANGED mbox
    /\ UNCHANGED <<mu, selected, loggedOut, exists, uidnext, op, pre>>

deExpunge(c) ==
    /\ pc[c] = "de_expunge"
    /\ \E ok \in BOOLEAN :
         /\ ok => CanUse(selected)
         /\ Cmd(c, "Expunge", "", ok)
         /\ IF ok
            THEN /\ mbox' = ExpungeResult(mbox, selected)
                 /\ Return(c, Result(""))
            ELSE /\ Return(c, Result("failed to expunge"))
                 /\ UNCHANGED mbox
    /\ UNCHANGED <<mu, selected, loggedOut, exists, uidnext, op, pre>>

deleteEmailBody(c) == deTrash(c) \/ deSelect(c) \/ deStore(c) \/ deExpunge(c)


\* ----------------------------------------------------------- listFolders
\* fmt.Sprintf("%d", n)
RECURSIVE FormatUID(_)
FormatUID(n) ==
    LET d == CASE n % 10 = 0 -> "0" [] n % 10 = 1 -> "1" [] n % 10 = 2 -> "2"
               [] n % 10 = 3 -> "3" [] n % 10 = 4 -> "4" [] n % 10 = 5 -> "5"
               [] n % 10 = 6 -> "6" [] n % 10 = 7 -> "7" [] n % 10 = 8 -> "8"
               [] OTHER -> "9"
    IN IF n < 10 THEN <<d>> ELSE FormatUID(n \div 10) \o <<d>>

\* SaveDraft takes the first of draftFolders that the listing contains,
\* and "Drafts" when it contains none
PickDraftFolder(listed) ==
    LET hits == {i \in 1..Len(draftFolders) : draftFolders[i] \in listed} IN
    IF hits = {} THEN "Drafts"
    ELSE draftFolders[CHOOSE i \in hits : \A j \in hits : i <= j]

listFolders(c) ==
    /\ pc[c] = "list"
    /\ \E ok \in BOOLEAN :
         /\ ok => Alive
         /\ Cmd(c, "List", "*", ok)
         /\ IF op[c].name = "ListFolders"
            THEN /\ Return(c, IF ok THEN [Result("") EXCEPT !.out = <<exists>>]
                              ELSE Result("failed to list folders"))
                 /\ op' = op
            ELSE IF ~ok
            THEN Return(c, Result("failed to list folders")) /\ op' = op
            ELSE /\ op' = [op EXCEPT ![c].to = PickDraftFolder(exists),
                                     ![c].folder = IF @ = NoFolder THEN "INBOX" ELSE @]
                 /\ Goto(c, IF op[c].id # <<>> THEN "ge_select" ELSE "sd_append")
                 /\ res' = res
    /\ UNCHANGED <<mu, backend, pre>>

ListFolders(c) ==
    /\ Arrives(c)
    /\ Enter(c, Req("ListFolders"), "list")

\* -------------------------------------------------------------- getEmail
\* parseMessageData: Unread is the absence of \Seen among the fetched flags
parseMessageData(m, flags) ==
    [id |-> FormatUID(m.uid), mid |-> m.mid, date |-> DateOf(m.mid),
     unread |-> (SeenFlag \notin flags)]

getEmailReturn(c, e, email) ==
    IF op[c].name = "GetEmail"
    THEN Return(c, [Result(e) EXCEPT !.out = email])
    ELSE IF e # ""
    THEN Return(c, Result("failed to get original email for reply"))
    ELSE Goto(c, "sd_append") /\ res' = res

geSelect(c) ==
    /\ pc[c] = "ge_select"
    /\ \E ok \in BOOLEAN :
         /\ ok => CanSelect(op[c].folder)
         /\ Cmd(c, "Select", op[c].folder, ok)
         /\ selected' = IF ok THEN op[c].folder ELSE NoFolder
         /\ IF ~ok THEN getEmailReturn(c, "failed to select folder", <<>>) /\ op' = op
            ELSE IF ~ParseUID(op[c].id).ok
            THEN getEmailReturn(c, "invalid email ID format", <<>>) /\ op' = op
            ELSE /\ Goto(c, "ge_fetch")
                 /\ op' = [op EXCEPT ![c].uid = ParseUID(op[c].id).uid]
                 /\ res' = res
    /\ UNCHANGED <<mu, loggedOut, exists, mbox, uidnext, pre>>

\* UidFetch of envelope, flags and BODY[]: a successful fetch of the body
\* section sets \Seen on the server; the flags in the response are those
\* before or after that, as the server chooses.  A failing fetch may or may
\* not have delivered the message before its status.
geFetch(c) ==
    /\ pc[c] = "ge_fetch"
    /\ \E ok \in BOOLEAN, first \in BOOLEAN :
         /\ ok => CanUse(selected)
         /\ Cmd(c, "UidFetch", "BODY[]", ok)
         /\ LET found == IF selected \in exists
                         THEN {m \in mbox[selected] : m.uid = op[c].uid} ELSE {}
            IN IF found = {} \/ (~ok /\ ~first)
               THEN getEmailReturn(c, "email not found", <<>>) /\ UNCHANGED mbox
               ELSE IF ~ok
               THEN getEmailReturn(c, "failed to fetch message", <<>>) /\ UNCHANGED mbox
               ELSE LET m == CHOOSE x \in found : TRUE IN
                    /\ mbox' = StoreResult(mbox, selected, op[c].uid, TRUE, {SeenFlag})
                    /\ getEmailReturn(c, "",
                          <<parseMessageData(m, IF first THEN m.flags
                                                ELSE m.flags \cup {SeenFlag})>>)
    /\ UNCHANGED <<mu, selected, loggedOut, exists, uidnext, op, pre>>

getEmail(c) == geSelect(c) \/ geFetch(c)

GetEmail(c) ==
    \E f \in SrcFolders, id \in EmailIDs :
        /\ Arrives(c)
        /\ Enter(c, [Req("GetEmail") EXCEPT !.folder = f, !.id = id], "ge_select")

\* ----------------------------------------------------------- countEmails
\* (variant: LastDays takes precedence over Since)
CriteriaLastDaysFirst(r) ==
    [since |-> IF r.lastDays > 0 THEN Today - r.lastDays
               ELSE IF r.since # NoDate THEN r.since ELSE NoDate,
     before |-> r.before,
     unseen |-> r.unreadOnly]

\* the search criteria built from the filters: Since when given, else
\* LastDays back from now when positive; Before; WithoutFlags \Seen when
\* UnreadOnly
Criteria(r) ==
    [since |-> IF r.since # NoDate THEN r.since
               ELSE IF r.lastDays > 0 THEN Today - r.lastDays ELSE NoDate,
     before |-> r.before,
     unseen |-> r.unreadOnly]

\* (variant: UnreadOnly is sent as WithFlags \Seen)
MatchesSeen(m, cr) ==
    /\ cr.since # NoDate => DateOf(m.mid) >= cr.since
    /\ cr.before # NoDate => DateOf(m.mid) < cr.before
    /\ cr.unseen => SeenFlag \in m.flags

\* the server's evaluation of the criteria on one message
Matches(m, cr) ==
    /\ cr.since # NoDate => DateOf(m.mid) >= cr.since
    /\ cr.before # NoDate => DateOf(m.mid) < cr.before
    /\ cr.unseen => SeenFlag \notin m.flags

\* UID SEARCH: the matching identifiers of folder f, ascending
SearchResult(f, cr) ==
    SortedUids({m.uid : m \in {x \in mbox[f] : Matches(x, cr)}})

\* (variant: the handler tells "not empty" by the count alone)
DeleteFolderHandlerNoForce(force, wasEmpty, emailCount, e) ==
    IF e # ""
    THEN IF emailCount > 0 THEN "not_empty" ELSE "error"
    ELSE "deleted"

\* the delete_folder tool: a client error with force unset and a positive
\* count becomes the structured "not empty" text result, any other client
\* error a tool error
DeleteFolderHandler(force, wasEmpty, emailCount, e) ==
    IF e # ""
    THEN IF ~force /\ emailCount > 0 THEN "not_empty" ELSE "error"
    ELSE "deleted"

DeleteFolderResult(c, wasEmpty, n, e) ==
    [Result(e) EXCEPT !.wasEmpty = wasEmpty, !.count = n,
                      !.tool = DeleteFolderHandler(op[c].flag, wasEmpty, n, e)]

\* (variant: DeleteFolder does not look at the count before deleting)
countEmailsReturnNoCheck(c, n, e) ==
    IF op[c].name = "CountEmails"
    THEN Return(c, [Result(e) EXCEPT !.count = n]) /\ op' = op
    ELSE IF e # ""
    THEN Return(c, DeleteFolderResult(c, FALSE, 0, "failed to access folder"))
         /\ op' = op
    ELSE /\ Goto(c, "df_delete")
         /\ op' = [op EXCEPT ![c].count = n]
         /\ res' = res

countEmailsReturn(c, n, e) ==
    IF op[c].name = "CountEmails"
    THEN Return(c, [Result(e) EXCEPT !.count = n]) /\ op' = op
    ELSE IF e # ""
    THEN Return(c, DeleteFolderResult(c, FALSE, 0, "failed to access folder"))
         /\ op' = op
    ELSE IF n > 0 /\ ~op[c].flag
    THEN Return(c, DeleteFolderResult(c, FALSE, n, "folder is not empty"))
         /\ op' = op
    ELSE /\ Goto(c, "df_delete")
         /\ op' = [op EXCEPT ![c].count = n]
         /\ res' = res

ceSelect(c) ==
    /\ pc[c] = "ce_select"
    /\ \E ok \in BOOLEAN :
         /\ ok => CanSelect(op[c].folder)
         /\ Cmd(c, "Select", op[c].folder, ok)
         /\ selected' = IF ok THEN op[c].folder ELSE NoFolder
         /\ IF ~ok THEN countEmailsReturn(c, 0, "failed to select folder")
            ELSE Goto(c, "ce_search") /\ UNCHANGED <<op, res>>
    /\ UNCHANGED <<mu, loggedOut, exists, mbox, uidnext, pre>>

ceSearch(c) ==
    /\ pc[c] = "ce_search"
    /\ \E ok \in BOOLEAN :
         /\ ok => CanUse(selected)
         /\ Cmd(c, "UidSearch", "", ok)
         /\ IF ~ok THEN countEmailsReturn(c, 0, "failed to search emails")
            ELSE countEmailsReturn(c, Len(SearchResult(selected, Criteria(op[c]))), "")
    /\ UNCHANGED <<mu, backend, pre>>

countEmails(c) == ceSelect(c) \/ ceSearch(c)

CountEmails(c) ==
    \E f \in SrcFolders, fa \in FilterArgs :
        /\ Arrives(c)
        /\ Enter(c, [Req("CountEmails") EXCEPT !.folder = f, !.since = fa[1],
                                             !.lastDays = fa[2], !.before = fa[3],
                                             !.unreadOnly = fa[4]],
              "ce_select")


\* ---------------------------------------------------------- SearchEmails
\* (variant: limit keeps the oldest identifiers)
WindowOldest(uids, offset, limit) ==
    LET n == Len(uids)
        a == IF offset > 0 /\ offset < n THEN SubSeq(uids, 1, n - offset)
             ELSE IF offset >= n THEN <<>> ELSE uids
    IN IF limit > 0 /\ Len(a) > limit THEN SubSeq(a, 1, limit) ELSE a

\* offset drops the most recent identifiers, limit keeps the last ones
Window(uids, offset, limit) ==
    LET n == Len(uids)
        a == IF offset > 0 /\ offset < n THEN SubSeq(uids, 1, n - offset)
             ELSE IF offset >= n THEN <<>> ELSE uids
    IN IF limit > 0 /\ Len(a) > limit
       THEN SubSeq(a, Len(a) - limit + 1, Len(a)) ELSE a

seSelect(c) ==
    /\ pc[c] = "se_select"
    /\ \E ok \in BOOLEAN :
         /\ ok => CanSelect(op[c].folder)
         /\ Cmd(c, "Select", op[c].folder, ok)
         /\ selected' = IF ok THEN op[c].folder ELSE NoFolder
         /\ IF ~ok THEN Return(c, Result("failed to select folder"))
            ELSE Goto(c, "se_search") /\ res' = res
    /\ UNCHANGED <<mu, loggedOut, exists, mbox, uidnext, op, pre>>

\* (variant: total is taken after the window is cut)
seSearchTotalAfter(c) ==
    /\ pc[c] = "se_search"
    /\ \E ok \in BOOLEAN :
         /\ ok => CanUse(selected)
         /\ Cmd(c, "UidSearch", "", ok)
         /\ IF ~ok THEN Return(c, Result("failed to search emails")) /\ op' = op
            ELSE LET all == SearchResult(selected, Criteria(op[c]))
                     uids == Window(all, op[c].offset, op[c].limit)
                     total == Len(uids)
                 IN IF total = 0 \/ op[c].offset >= Len(all)
                    THEN Return(c, [Result("") EXCEPT !.count = total]) /\ op' = op
                    ELSE /\ Goto(c, "se_fetch")
                         /\ op' = [op EXCEPT ![c].uids = uids, ![c].count = total]
                         /\ res' = res
    /\ UNCHANGED <<mu, backend, pre>>

seSearch(c) ==
    /\ pc[c] = "se_search"
    /\ \E ok \in BOOLEAN :
         /\ ok => CanUse(selected)
         /\ Cmd(c, "UidSearch", "", ok)
         /\ IF ~ok THEN Return(c, Result("failed to search emails")) /\ op' = op
            ELSE LET uids == SearchResult(selected, Criteria(op[c]))
                     total == Len(uids)
                 IN IF total = 0 \/ op[c].offset >= total
                    THEN Return(c, [Result("") EXCEPT !.count = total]) /\ op' = op
                    ELSE /\ Goto(c, "se_fetch")
                         /\ op' = [op EXCEPT
                                     ![c].uids = Window(uids, op[c].offset, op[c].limit),
                                     ![c].count = total]
                         /\ res' = res
    /\ UNCHANGED <<mu, backend, pre>>

Reverse(s) == [i \in 1..Len(s) |-> s[Len(s) + 1 - i]]

\* the summary fetch appends the messages in the order in which the server
\* streams them, which the server chooses (ascending as a rule)
seFetch(c) ==
    /\ pc[c] = "se_fetch"
    /\ \E ok \in BOOLEAN, asc \in BOOLEAN :
         /\ ok => CanUse(selected)
         /\ Cmd(c, "UidFetch", "ENVELOPE", ok)
         /\ IF ~ok THEN Return(c, Result("failed to fetch messages"))
            ELSE LET want == {op[c].uids[i] : i \in 1..Len(op[c].uids)}
                     up == SortedUids({m.uid : m \in {x \in mbox[selected] :
                                                         x.uid \in want}})
                     got == IF asc THEN up ELSE Reverse(up)
                     msg(u) == CHOOSE m \in mbox[selected] : m.uid = u
                 IN Return(c, [Result("") EXCEPT
                       !.count = op[c].count,
                       !.out = [i \in 1..Len(got) |->
                                   parseMessageData(msg(got[i]), msg(got[i]).flags)]])
    /\ UNCHANGED <<mu, backend, op, pre>>

searchEmailsBody(c) == seSelect(c) \/ seSearch(c) \/ seFetch(c)

SearchEmails(c) ==
    \E f \in SrcFolders, fa \in FilterArgs, lim \in 0..1, off \in 0..InitMsgs :
        /\ Arrives(c)
        /\ Enter(c, [Req("SearchEmails") EXCEPT !.folder = f, !.since = fa[1],
                                             !.lastDays = fa[2], !.before = fa[3],
                                             !.unreadOnly = fa[4],
                                             !.limit = lim, !.offset = off],
              "se_select")

\* -------------------------------------------------------------- MarkRead
mrSelect(c) ==
    /\ pc[c] = "mr_select"
    /\ \E ok \in BOOLEAN :
         /\ ok => CanSelect(op[c].folder)
         /\ Cmd(c, "Select", op[c].folder, ok)
         /\ selected' = IF ok THEN op[c].folder ELSE NoFolder
         /\ IF ~ok THEN Return(c, Result("failed to select folder")) /\ op' = op
            ELSE IF ~ParseUID(op[c].id).ok
            THEN Return(c, Result("invalid email ID format")) /\ op' = op
            ELSE /\ Goto(c, "mr_store")
                 /\ op' = [op EXCEPT ![c].uid = ParseUID(op[c].id).uid]
                 /\ res' = res
    /\ UNCHANGED <<mu, loggedOut, exists, mbox, uidnext, pre>>

\* (variant: the store flips the marker instead of setting it)
mrStoreToggle(c) ==
    /\ pc[c] = "mr_store"
    /\ \E ok \in BOOLEAN :
         /\ ok => CanUse(selected)
         /\ Cmd(c, "UidStore", SeenFlag, ok)
         /\ IF ok
            THEN /\ mbox' = StoreResult(mbox, selected, op[c].uid,
                                       \A m \in mbox[selected] :
                                           m.uid = op[c].uid => SeenFlag \notin m.flags,
                                       {SeenFlag})
                 /\ Return(c, Result(""))
            ELSE /\ Return(c, Result("failed to mark email"))
                 /\ UNCHANGED mbox
    /\ UNCHANGED <<mu, selected, loggedOut, exists, uidnext, op, pre>>

mrStore(c) ==
    /\ pc[c] = "mr_store"
    /\ \E ok \in BOOLEAN :
         /\ ok => CanUse(selected)
         /\ Cmd(c, "UidStore", SeenFlag, ok)
         /\ IF ok
            THEN /\ mbox' = StoreResult(mbox, selected, op[c].uid, op[c].flag, {SeenFlag})
                 /\ Return(c, Result(""))
            ELSE /\ Return(c, Result("failed to mark email"))
                 /\ UNCHANGED mbox
    /\ UNCHANGED <<mu, selected, loggedOut, exists, uidnext, op, pre>>

markReadBody(c) == mrSelect(c) \/ mrStore(c)

MarkRead(c) ==
    \E f \in SrcFolders, id \in EmailIDs, read \in BOOLEAN :
        /\ Arrives(c)
        /\ Enter(c, [Req("MarkRead") EXCEPT !.folder = f, !.id = id, !.flag = read],
              "mr_select")


\* ------------------------------------------------------------- SaveDraft
\* opts.ReplyToID (id, <<>> when empty) and opts.Folder (NoFolder when empty)
SaveDraft(c) ==
    \E f \in {NoFolder, "Trash"}, id \in {<<>>} \cup EmailIDs :
        /\ Arrives(c)
        /\ Enter(c, [Req("SaveDraft") EXCEPT !.folder = f, !.id = id], "list")

\* Append with the \Draft flag; message text is composed from the arguments
sdAppend(c) ==
    /\ pc[c] = "sd_append"
    /\ \E ok \in BOOLEAN :
         /\ ok => (Alive /\ op[c].to \in exists /\ uidnext[op[c].to] <= MaxUid)
         /\ Cmd(c, "Append", op[c].to, ok)
         /\ IF ok
            THEN /\ mbox' = [mbox EXCEPT ![op[c].to] =
                                @ \cup {Msg(uidnext[op[c].to], 0, {DraftFlag})}]
                 /\ uidnext' = [uidnext EXCEPT ![op[c].to] = @ + 1]
                 /\ Goto(c, "sd_select")
                 /\ res' = res
            ELSE /\ Return(c, Result("failed to append draft"))
                 /\ UNCHANGED <<mbox, uidnext>>
    /\ UNCHANGED <<mu, selected, loggedOut, exists, op, pre>>

\* the draft ID is the message count of the selected drafts folder
sdSelect(c) ==
    /\ pc[c] = "sd_select"
    /\ \E ok \in BOOLEAN :
         /\ ok => CanSelect(op[c].to)
         /\ Cmd(c, "Select", op[c].to, ok)
         /\ selected' = IF ok THEN op[c].to ELSE NoFolder
         /\ IF ok
            THEN Return(c, [Result("") EXCEPT
                              !.out = <<FormatUID(Cardinality(mbox[op[c].to]))>>])
            ELSE Return(c, Result("failed to select draft folder"))
    /\ UNCHANGED <<mu, loggedOut, exists, mbox, uidnext, op, pre>>

saveDraftBody(c) == sdAppend(c) \/ sdSelect(c)

\* --------------------------------------------------------- GetAttachment
gaSelect(c) ==
    /\ pc[c] = "ga_select"
    /\ \E ok \in BOOLEAN :
         /\ ok => CanSelect(op[c].folder)
         /\ Cmd(c, "Select", op[c].folder, ok)
         /\ selected' = IF ok THEN op[c].folder ELSE NoFolder
         /\ IF ~ok THEN Return(c, Result("failed to select folder")) /\ op' = op
            ELSE IF ~ParseUID(op[c].id).ok
            THEN Return(c, Result("invalid email ID format")) /\ op' = op
            ELSE /\ Goto(c, "ga_structure")
                 /\ op' = [op EXCEPT ![c].uid = ParseUID(op[c].id).uid]
                 /\ res' = res
    /\ UNCHANGED <<mu, loggedOut, exists, mbox, uidnext, pre>>

\* first fetch: BODYSTRUCTURE only
gaStructure(c) ==
    /\ pc[c] = "ga_structure"
    /\ \E ok \in BOOLEAN, first \in BOOLEAN :
         /\ ok => CanUse(selected)
         /\ Cmd(c, "UidFetch", "BODYSTRUCTURE", ok)
         /\ LET found == IF selected \in exists
                         THEN {m \in mbox[selected] : m.uid = op[c].uid} ELSE {}
            IN IF found = {} \/ (~ok /\ ~first)
               THEN Return(c, Result("email not found"))
               ELSE IF ~ok THEN Return(c, Result("failed to fetch email structure"))
               ELSE Goto(c, "ga_body") /\ res' = res
    /\ UNCHANGED <<mu, backend, op, pre>>

\* second fetch: BODY[], which sets \Seen; the MIME walk then finds the
\* named attachment, or not, or fails, depending on the message text
gaBody(c) ==
    /\ pc[c] = "ga_body"
    /\ \E ok \in BOOLEAN, first \in BOOLEAN,
          e \in {"", "failed to parse email", "attachment not found"} :
         /\ ok => CanUse(selected)
         /\ Cmd(c, "UidFetch", "BODY[]", ok)
         /\ LET found == IF selected \in exists
                         THEN {m \in mbox[selected] : m.uid = op[c].uid} ELSE {}
            IN IF found = {} \/ (~ok /\ ~first)
               THEN Return(c, Result("email not found")) /\ UNCHANGED mbox
               ELSE IF ~ok
               THEN Return(c, Result("failed to fetch message body")) /\ UNCHANGED mbox
               ELSE /\ mbox' = StoreResult(mbox, selected, op[c].uid, TRUE, {SeenFlag})
                    /\ Return(c, Result(e))
    /\ UNCHANGED <<mu, selected, loggedOut, exists, uidnext, op, pre>>

getAttachmentBody(c) == gaSelect(c) \/ gaStructure(c) \/ gaBody(c)

GetAttachment(c) ==
    \E f \in SrcFolders, id \in EmailIDs :
        /\ Arrives(c)
        /\ Enter(c, [Req("GetAttachment") EXCEPT !.folder = f, !.id = id], "ga_select")

\* ------------------------------------------------------------- FlagEmail
TypeKeyword(t) ==
    CASE t = "follow-up" -> "$FollowUp" [] t = "important" -> "$Important"
      [] t = "deadline" -> "$Deadline" [] OTHER -> ""

ColorKeyword(col) ==
    CASE col = "red" -> "$FlagRed" [] col = "orange" -> "$FlagOrange"
      [] col = "yellow" -> "$FlagYellow" [] col = "green" -> "$FlagGreen"
      [] col = "blue" -> "$FlagBlue" [] col = "purple" -> "$FlagPurple"
      [] OTHER -> ""

AllFlagKeywords ==
    {FlaggedFlag, "$FollowUp", "$Important", "$Deadline", "$FlagRed",
     "$FlagOrange", "$FlagYellow", "$FlagGreen", "$FlagBlue", "$FlagPurple"}

flSelect(c) ==
    /\ pc[c] = "fl_select"
    /\ \E ok \in BOOLEAN :
         /\ ok => CanSelect(op[c].folder)
         /\ Cmd(c, "Select", op[c].folder, ok)
         /\ selected' = IF ok THEN op[c].folder ELSE NoFolder
         /\ IF ~ok THEN Return(c, Result("failed to select folder")) /\ op' = op
            ELSE IF ~ParseUID(op[c].id).ok
            THEN Return(c, Result("invalid email ID format")) /\ op' = op
            ELSE IF op[c].ftype # "none" /\ TypeKeyword(op[c].ftype) = ""
            THEN Return(c, Result("invalid flag type")) /\ op' = op
            ELSE IF op[c].ftype # "none" /\ op[c].color # ""
                    /\ ColorKeyword(op[c].color) = ""
            THEN Return(c, Result("invalid color")) /\ op' = op
            ELSE /\ Goto(c, "fl_store")
                 /\ op' = [op EXCEPT ![c].uid = ParseUID(op[c].id).uid]
                 /\ res' = res
    /\ UNCHANGED <<mu, loggedOut, exists, mbox, uidnext, pre>>

\* (variant: the store sets the message's flags to the given list)
flStoreReplace(c) ==
    /\ pc[c] = "fl_store"
    /\ \E ok \in BOOLEAN :
         /\ ok => CanUse(selected)
         /\ Cmd(c, "UidStore", op[c].ftype, ok)
         /\ mbox' = IF ~ok THEN mbox
                    ELSE [mbox EXCEPT ![selected] =
                            {IF m.uid = op[c].uid
                             THEN [m EXCEPT !.flags =
                                     IF op[c].ftype = "none" THEN {}
                                     ELSE {FlaggedFlag, TypeKeyword(op[c].ftype)}
                                          \cup (IF op[c].color = "" THEN {}
                                                ELSE {ColorKeyword(op[c].color)})]
                             ELSE m : m \in @}]
         /\ Return(c, IF ok \/ op[c].ftype = "none" THEN Result("")
                      ELSE Result("failed to set flags"))
    /\ UNCHANGED <<mu, selected, loggedOut, exists, uidnext, op, pre>>

\* "none" removes every known keyword and ignores the outcome; any other
\* type adds \Flagged, the type keyword and the color keyword
flStore(c) ==
    /\ pc[c] = "fl_store"
    /\ \E ok \in BOOLEAN :
         /\ ok => CanUse(selected)
         /\ Cmd(c, "UidStore", op[c].ftype, ok)
         /\ IF op[c].ftype = "none"
            THEN /\ mbox' = IF ok THEN StoreResult(mbox, selected, op[c].uid, FALSE,
                                                   AllFlagKeywords)
                            ELSE mbox
                 /\ Return(c, Result(""))
            ELSE IF ok
            THEN /\ mbox' = StoreResult(mbox, selected, op[c].uid, TRUE,
                               {FlaggedFlag, TypeKeyword(op[c].ftype)}
                               \cup (IF op[c].color = "" THEN {}
                                     ELSE {ColorKeyword(op[c].color)}))
                 /\ Return(c, Result(""))
            ELSE /\ Return(c, Result("failed to set flags"))
                 /\ UNCHANGED mbox
    /\ UNCHANGED <<mu, selected, loggedOut, exists, uidnext, op, pre>>

flagEmailBody(c) == flSelect(c) \/ flStore(c)

ValidFlags == {"follow-up", "important", "deadline", "none"}

ValidColors == {"red", "orange", "yellow", "green", "blue", "purple"}

\* a tool handler answers with an error result without calling the client
ToolError(c, r, e) ==
    /\ Goto(c, "tool_ret")
    /\ op' = [op EXCEPT ![c] = r]
    /\ trace' = [trace EXCEPT ![c] = <<>>]
    /\ res' = [res EXCEPT ![c] = [Result(e) EXCEPT !.tool = "error"]]
    /\ UNCHANGED <<mu, backend, pre>>

toolRet(c) ==
    /\ pc[c] = "tool_ret"
    /\ Goto(c, "done")
    /\ op' = [op EXCEPT ![c] = NoReq]
    /\ res' = [res EXCEPT ![c] = NoResult]
    /\ UNCHANGED <<mu, backend, trace, pre>>

\* (variant: the handler hands every request to the client)
FlagEmailHandlerNoCheck(c) ==
    \E f \in SrcFolders, id \in EmailIDs, a \in FlagArgs :
        /\ Arrives(c)
        /\ Enter(c, [Req("FlagEmailHandler") EXCEPT !.folder = f, !.id = id,
                                                 !.ftype = a[1], !.color = a[2]],
                 "fl_select")

\* the flag_email tool: the handler checks the flag type and the color, then
\* calls the client's FlagEmail
FlagEmailHandler(c) ==
    \E f \in SrcFolders, id \in EmailIDs, a \in FlagArgs :
        LET r == [Req("FlagEmailHandler") EXCEPT !.folder = f, !.id = id,
                                                !.ftype = a[1], !.color = a[2]]
        IN /\ Arrives(c)
           /\ IF a[1] \notin ValidFlags
              THEN ToolError(c, r, "flag must be one of: follow-up, important, deadline, none")
              ELSE IF a[2] # "" /\ a[2] \notin ValidColors
              THEN ToolError(c, r, "color must be one of: red, orange, yellow, green, blue, purple")
              ELSE Enter(c, r, "fl_select")

FlagEmail(c) ==
    \E f \in SrcFolders, id \in EmailIDs, a \in FlagArgs :
        /\ Arrives(c)
        /\ Enter(c, [Req("FlagEmail") EXCEPT !.folder = f, !.id = id,
                                          !.ftype = a[1], !.color = a[2]],
              "fl_select")

\* ---------------------------------------------------------- CreateFolder
CreateFolder(c) ==
    \E n \in SrcFolders, p \in {"", "INBOX"} :
        /\ Arrives(c)
        /\ Enter(c, [Req("CreateFolder") EXCEPT !.folder = n, !.parent = p], "cf_create")

\* folderPath is name, or parent + "/" + name; nested paths lie outside
\* the folders this model tracks
cfCreate(c) ==
    /\ pc[c] = "cf_create"
    /\ \E ok \in BOOLEAN :
         /\ ok => (Alive /\ (op[c].parent = "" => op[c].folder \notin exists))
         /\ Cmd(c, "Create", <<op[c].parent, op[c].folder>>, ok)
         /\ exists' = IF ok /\ op[c].parent = "" THEN exists \cup {op[c].folder}
                      ELSE exists
         /\ Return(c, IF ok THEN Result("") ELSE Result("failed to create folder"))
    /\ UNCHANGED <<mu, selected, loggedOut, mbox, uidnext, op, pre>>

\* ---------------------------------------------------------- DeleteFolder
DeleteFolder(c) ==
    \E n \in Folders, force \in BOOLEAN :
        /\ Arrives(c)
        /\ Enter(c, [Req("DeleteFolder") EXCEPT !.folder = n, !.flag = force],
              "ce_select")

dfDelete(c) ==
    /\ pc[c] = "df_delete"
    /\ \E ok \in BOOLEAN :
         /\ ok => (Alive /\ op[c].folder \in exists /\ op[c].folder # "INBOX")
         /\ Cmd(c, "Delete", op[c].folder, ok)
         /\ IF ok
            THEN /\ exists' = exists \ {op[c].folder}
                 /\ mbox' = [mbox EXCEPT ![op[c].folder] = {}]
                 /\ uidnext' = [uidnext EXCEPT ![op[c].folder] = 1]
                 /\ selected' = IF selected = op[c].folder THEN NoFolder ELSE selected
                 /\ Return(c, DeleteFolderResult(c, op[c].count = 0, op[c].count, ""))
            ELSE /\ Return(c, DeleteFolderResult(c, FALSE, op[c].count,
                                                 "failed to delete folder"))
                 /\ UNCHANGED <<exists, mbox, uidnext, selected>>
    /\ UNCHANGED <<mu, loggedOut, op, pre>>

\* ----------------------------------------------------------------- Close
Close(c) ==
    /\ Arrives(c)
    /\ Enter(c, Req("Close"), "cl_logout")

\* Logout on a connection that is already logged out returns an error
clLogout(c) ==
    /\ pc[c] = "cl_logout"
    /\ \E ok \in BOOLEAN :
         /\ ok => Alive
         /\ Cmd(c, "Logout", "", ok)
         /\ loggedOut' = (loggedOut \/ ok)
         /\ Return(c, IF ok THEN Result("") ELSE Result("logout failed"))
    /\ UNCHANGED <<mu, selected, exists, mbox, uidnext, op, pre>>

\* ----------------------------------------------------------- smtp.Client
\* (variant: sending takes the session mutex)
SendEmailLocked(c) ==
    /\ Arrives(c)
    /\ Lock(c)
    /\ \E n \in {"SendEmail", "ReplyToEmail"} :
         op' = [op EXCEPT ![c] = [Req(n) EXCEPT !.held = mu]]
    /\ Goto(c, "smtp_sendmail")
    /\ UNCHANGED <<backend, trace, res, pre>>

\* SendEmail builds the message and hands it to smtp.SendMail, which opens
\* its own connection; ReplyToEmail derives the arguments and calls SendEmail
SendEmail(c) ==
    /\ Arrives(c)
    /\ \E n \in {"SendEmail", "ReplyToEmail"} :
         op' = [op EXCEPT ![c] = [Req(n) EXCEPT !.held = mu]]
    /\ Goto(c, "smtp_sendmail")
    /\ UNCHANGED <<mu, backend, trace, res, pre>>

smtpSendMail(c) ==
    /\ pc[c] = "smtp_sendmail"
    /\ \E ok \in BOOLEAN :
         /\ Goto(c, "smtp_ret")
         /\ res' = [res EXCEPT ![c] = IF ok THEN Result("")
                                      ELSE Result("failed to send email")]
    /\ UNCHANGED <<mu, backend, op, trace, pre>>

smtpRet(c) ==
    /\ pc[c] = "smtp_ret"
    /\ Goto(c, "done")
    /\ op' = [op EXCEPT ![c] = NoReq]
    /\ res' = [res EXCEPT ![c] = NoResult]
    /\ UNCHANGED <<mu, backend, trace, pre>>

\* ------------------------------------------------------------------ Next
Invoke(c) ==
    \/ ListFolders(c) \/ SearchEmails(c) \/ GetEmail(c) \/ CountEmails(c)
    \/ MarkRead(c) \/ MoveEmail(c) \/ DeleteEmail(c) \/ SaveDraft(c)
    \/ GetAttachment(c) \/ FlagEmail(c) \/ FlagEmailHandler(c) \/ CreateFolder(c)
    \/ DeleteFolder(c) \/ Close(c)

Body(c) ==
    \/ listFolders(c) \/ searchEmailsBody(c) \/ getEmail(c) \/ countEmails(c)
    \/ markReadBody(c) \/ moveEmail(c) \/ deleteEmailBody(c) \/ saveDraftBody(c)
    \/ getAttachmentBody(c) \/ flagEmailBody(c) \/ cfCreate(c) \/ dfDelete(c)
    \/ clLogout(c) \/ Ret(c) \/ toolRet(c)

Smtp(c) == SendEmail(c) \/ smtpSendMail(c) \/ smtpRet(c)

Next == \E c \in Callers : Invoke(c) \/ Body(c) \/ Smtp(c)

Spec == Init /\ [][Next]_vars

\* one request at a time, over every initial mailbox
NextSeq == Invoke(1) \/ Body(1) \/ Smtp(1)

SpecSeq == InitSeq /\ [][NextSeq]_vars

\* every backend command returns, and a returning method runs its deferred
\* unlock
FairSpec == Spec /\ \A c \in Callers : WF_vars(Body(c))

\* ------------------------------------------- composed message text
\* Texts (addresses, subjects) are sequences of characters.
MaxClock == 2
NumUuids == 2

\* readings of time.Now() and values of uuid.New()
Times == 1..MaxClock
Uuids == 1..NumUuids

Lower(ch) == CASE ch = "R" -> "r" [] ch = "E" -> "e" [] ch = "M" -> "m" [] OTHER -> ch

\* strings.ToLower
ToLower(s) == [i \in 1..Len(s) |-> Lower(s[i])]

\* strings.HasPrefix
HasPrefix(s, p) == Len(s) >= Len(p) /\ SubSeq(s, 1, Len(p)) = p

\* strings.Contains
Contains(s, sub) == \E i \in 0..(Len(s) - Len(sub)) : SubSeq(s, i + 1, i + Len(sub)) = sub

\* the account (c.username) and the addresses that appear in messages: the
\* account's own address as configured, in another letter case and with a
\* display name, and three other addresses
Username == <<"m", "e">>
AddrSelfUpper == <<"M", "e">>
AddrSelfNamed == <<"n", " ", "<", "m", "e", ">">>
AddrA == <<"a">>
AddrB == <<"b">>
AddrC == <<"c">>

smtpServer == "smtp.mail.me.com"

HeaderKeys == {"Date", "From", "To", "Cc", "Bcc", "Subject", "Message-ID",
               "In-Reply-To", "References", "X-Custom", "Content-Type"}

\* a header without fields; a field that is not set has the empty value
NoHeader == [k \in HeaderKeys |-> <<>>]

\* SendOptions / DraftOptions
Opts(cc, bcc, html, headers) == [cc |-> cc, bcc |-> bcc, html |-> html, headers |-> headers]

\* h.Set(key, value) for every entry of the Headers map
SetAll(h, headers) ==
    [k \in HeaderKeys |->
        IF \E e \in headers : e.key = k
        THEN (CHOOSE e \in headers : e.key = k).val ELSE h[k]]

\* (variant: the Bcc list is written into the header)
SendEmailMsgBcc(from, to, subject, opts, now) ==
    [hdr |-> [NoHeader EXCEPT !["Date"] = <<now>>, !["From"] = <<from>>,
                              !["To"] = to, !["Cc"] = opts.cc, !["Bcc"] = opts.bcc,
                              !["Subject"] = <<subject>>,
                              !["Message-ID"] = <<[n |-> now, user |-> Username,
                                                   host |-> smtpServer]>>,
                              !["Content-Type"] = <<"text/plain">>],
     from |-> from,
     recipients |-> to \o opts.cc]

\* SendEmail: the header that is rendered and the envelope handed to
\* smtp.SendMail
SendEmailMsg(from, to, subject, opts, now) ==
    LET h1 == [NoHeader EXCEPT !["Date"] = <<now>>, !["From"] = <<from>>, !["To"] = to]
        h2 == IF Len(opts.cc) > 0 THEN [h1 EXCEPT !["Cc"] = opts.cc] ELSE h1
        h3 == [h2 EXCEPT !["Subject"] = <<subject>>,
                         !["Message-ID"] = <<[n |-> now, user |-> Username,
                                              host |-> smtpServer]>>]
        h4 == SetAll(h3, opts.headers)
        h5 == [h4 EXCEPT !["Content-Type"] =
                  IF opts.html THEN <<"multipart/alternative">> ELSE <<"text/plain">>]
    IN [hdr |-> h5, from |-> from, recipients |-> to \o opts.cc \o opts.bcc]

RePrefix == <<"R", "e", ":", " ">>

\* ReplyToEmail: the To and Cc addresses of the original that do not contain
\* the username
replyCc(original, replyAll) ==
    LET Other(a) == ~Contains(a, Username)
    IN IF replyAll THEN SelectSeq(original.to, Other) \o SelectSeq(original.cc, Other)
       ELSE <<>>

\* (variant: the prefix is always added)
replySubjectAlways(subject) == RePrefix \o subject

\* ReplyToEmail: subject with Re: prefix
replySubject(subject) ==
    IF ~HasPrefix(ToLower(subject), <<"r", "e", ":">>) THEN RePrefix \o subject
    ELSE subject

\* (variant: References holds the original Message-ID only)
replyHeadersIdOnly(original) ==
    IF original.messageID # ""
    THEN {[key |-> "In-Reply-To", val |-> <<original.messageID>>],
          [key |-> "References", val |-> <<original.messageID>>]}
    ELSE {}

\* ReplyToEmail: reply headers
replyHeaders(original) ==
    IF original.messageID # ""
    THEN {[key |-> "In-Reply-To", val |-> <<original.messageID>>],
          [key |-> "References", val |-> original.references \o <<original.messageID>>]}
    ELSE {}

ReplyToEmailMsg(original, replyAll, opts, now) ==
    LET cc == replyCc(original, replyAll) \o opts.cc
        headers == {e \in replyHeaders(original) :
                       \A g \in opts.headers : g.key # e.key} \cup opts.headers
    IN SendEmailMsg(Username, <<original.from>>, replySubject(original.subject),
                    Opts(cc, opts.bcc, opts.html, headers), now)

\* no original: DraftOptions.ReplyToID is empty
NoOrig == [from |-> <<>>, to |-> <<>>, cc |-> <<>>, subject |-> <<>>,
           messageID |-> "", references |-> <<>>, reply |-> FALSE]

\* SaveDraft: the header text that is appended to the drafts folder
SaveDraftMsg(from, to, subject, opts, original, u, now) ==
    LET h1 == [NoHeader EXCEPT !["From"] = <<from>>, !["To"] = to]
        h2 == IF Len(opts.cc) > 0 THEN [h1 EXCEPT !["Cc"] = opts.cc] ELSE h1
        h3 == IF Len(opts.bcc) > 0 THEN [h2 EXCEPT !["Bcc"] = opts.bcc] ELSE h2
        subj == IF ~original.reply THEN subject
                ELSE IF ~HasPrefix(ToLower(original.subject), <<"r", "e", ":">>)
                THEN RePrefix \o original.subject
                ELSE original.subject
        refs == IF Len(original.references) = 0 /\ original.messageID # ""
                THEN <<original.messageID>>
                ELSE IF original.messageID # ""
                THEN original.references \o <<original.messageID>>
                ELSE original.references
        h4 == IF original.reply /\ original.messageID # ""
              THEN [h3 EXCEPT !["In-Reply-To"] = <<original.messageID>>,
                              !["References"] = refs]
              ELSE h3
        h5 == [h4 EXCEPT !["Subject"] = <<subj>>, !["Date"] = <<now>>,
                         !["Message-ID"] = <<[n |-> u, user |-> Username,
                                              host |-> "mcp-icloud-email"]>>,
                         !["Content-Type"] =
                             IF opts.html THEN <<"text/html">> ELSE <<"text/plain">>]
    IN [hdr |-> h5, from |-> from, recipients |-> <<>>]

\* the messages that are replied to (imap.Email as getEmail returns it)
OrigEmail(from, to, cc, subject, id, refs) ==
    [from |-> from, to |-> to, cc |-> cc, subject |-> subject,
     messageID |-> id, references |-> refs, reply |-> TRUE]

Originals ==
    {OrigEmail(AddrA, <<Username, AddrB>>, <<AddrC, Username>>, <<"x">>, "<m1>", <<>>),
     OrigEmail(AddrA, <<AddrSelfUpper>>, <<AddrB>>, RePrefix \o <<"x">>, "<m1>", <<"<m0>">>),
     OrigEmail(AddrA, <<AddrSelfNamed, AddrB>>, <<>>, <<"R", "E", ":", " ", "x">>, "", <<>>),
     OrigEmail(AddrB, <<Username>>, <<>>, <<"r", "e", ":", "x">>, "<m1>", <<>>),
     OrigEmail(AddrB, <<AddrA>>, <<AddrSelfUpper>>, <<"R", "e", "x">>, "", <<>>),
     OrigEmail(AddrB, <<Username>>, <<>>, <<>>, "<m1>", <<"<m0>">>)}

CcArgs == {<<>>, <<AddrB>>}
BccArgs == {<<>>, <<AddrC>>, <<AddrC, AddrA>>}
HeaderArgs == {{}, {[key |-> "X-Custom", val |-> <<(<<"v">>)>>]}}

\* a reading of the clock is not earlier than the readings already taken
Now(t) == \A d \in Callers : pc[d] = "composed" => op[d].now <= t

\* a fresh uuid differs from every uuid in use
FreshUuid(u) ==
    \A d \in Callers : (pc[d] = "composed" /\ op[d].name = "SaveDraft") => op[d].uuid # u

MsgReq(name, to, opts, original, replyAll, u, t) ==
    [name |-> name, to |-> to, opts |-> opts, original |-> original,
     replyAll |-> replyAll, uuid |-> u, now |-> t]

Composed(c, r, m) ==
    /\ Goto(c, "composed")
    /\ op' = [op EXCEPT ![c] = r]
    /\ res' = [res EXCEPT ![c] = [Result("") EXCEPT !.out = <<m>>]]
    /\ UNCHANGED <<mu, backend, trace, pre>>

SendEmailText(c) ==
    \E cc \in CcArgs, bcc \in BccArgs, hs \in HeaderArgs, html \in BOOLEAN, t \in Times :
        /\ Arrives(c) /\ Now(t)
        /\ Composed(c, MsgReq("SendEmail", <<AddrA>>, Opts(cc, bcc, html, hs),
                              NoOrig, FALSE, 0, t),
                    SendEmailMsg(Username, <<AddrA>>, <<"x">>, Opts(cc, bcc, html, hs), t))

ReplyToEmailText(c) ==
    \E o \in Originals, replyAll \in BOOLEAN, bcc \in {<<>>, <<AddrC>>},
       hs \in HeaderArgs, t \in Times :
        /\ Arrives(c) /\ Now(t)
        /\ Composed(c, MsgReq("ReplyToEmail", <<o.from>>, Opts(<<>>, bcc, FALSE, hs),
                              o, replyAll, 0, t),
                    ReplyToEmailMsg(o, replyAll, Opts(<<>>, bcc, FALSE, hs), t))

SaveDraftText(c) ==
    \E o \in Originals \cup {NoOrig}, cc \in CcArgs, bcc \in {<<>>, <<AddrC>>},
       u \in Uuids, t \in Times :
        /\ Arrives(c) /\ Now(t) /\ FreshUuid(u)
        /\ Composed(c, MsgReq("SaveDraft", <<AddrA>>, Opts(cc, bcc, FALSE, {}),
                              o, FALSE, u, t),
                    SaveDraftMsg(Username, <<AddrA>>, <<"x">>, Opts(cc, bcc, FALSE, {}),
                                 o, u, t))

\* ---- the body literal of a fetched message and its parsing
\* a part of the message: its kind (inline text/plain, inline text/html,
\* attachment), its content, and whether reading its body fails midway
Part(kind, bodyErr) == [kind |-> kind, text |-> <<"p", "q">>, bodyErr |-> bodyErr]

\* what io.ReadAll / io.Copy deliver: everything, or what came before the error
ReadBody(p) == IF p.bodyErr THEN SubSeq(p.text, 1, 1) ELSE p.text

PartLists ==
    {<<>>}
    \cup {<<Part(k, e)>> : k \in {"plain", "html"}, e \in BOOLEAN}
    \cup {<<Part("plain", e1), Part(k, e2)>> : k \in {"html", "attach"},
                                              e1 \in BOOLEAN, e2 \in BOOLEAN}

\* a body literal: mail.ReadMessage fails or not, message.CreateReader fails
\* or not, the parts, and the call of NextPart that fails (0: none)
Literal(readErr, readerErr, parts, nextErr) ==
    [readErr |-> readErr, readerErr |-> readerErr, parts |-> parts, nextErr |-> nextErr]

Literals ==
    {Literal(FALSE, FALSE, ps, n) : ps \in PartLists, n \in 0..2}
    \cup {Literal(TRUE, FALSE, <<Part("plain", FALSE)>>, 0),
          Literal(FALSE, TRUE, <<Part("plain", FALSE)>>, 0)}

\* slog.Warn(msg, ...) appends an event to the log; errs lists the errors
\* that the library calls returned
Warn(e, msg, stage) == [e EXCEPT !.log = Append(@, msg), !.errs = Append(@, stage)]

Failed(e, stage) == [e EXCEPT !.errs = Append(@, stage)]

RECURSIVE processMessagePart(_, _, _, _)
\* the loop over mr.NextPart(): call number i of NextPart; the errors of
\* io.ReadAll and io.Copy are discarded
processMessagePart(e, parts, i, nextErr) ==
    IF nextErr = i THEN Warn(e, "failed to read message part", "next-part")
    ELSE IF i > Len(parts) THEN e
    ELSE LET p == parts[i]
             e1 == IF p.bodyErr THEN Failed(e, IF p.kind = "attach" THEN "attachment-size"
                                              ELSE "part-body")
                   ELSE e
             e2 == CASE p.kind = "plain" -> [e1 EXCEPT !.bodyPlain = ReadBody(p)]
                     [] p.kind = "html" -> [e1 EXCEPT !.bodyHTML = ReadBody(p)]
                     [] OTHER -> [e1 EXCEPT !.attachments =
                                     Append(@, [filename |-> "f", size |-> Len(ReadBody(p))])]
         IN processMessagePart(e2, parts, i + 1, nextErr)

\* (variant: a message that cannot be read is reported as an error)
parseEmailBodyFails(e, lit) ==
    LET r == IF lit.readErr THEN Warn(e, "failed to read email message", "read-message")
             ELSE IF lit.readerErr
             THEN Warn(e, "failed to create message reader", "create-reader")
             ELSE processMessagePart(e, lit.parts, 1, lit.nextErr)
    IN IF r.errs # <<>> THEN [r EXCEPT !.err = "failed to parse email"] ELSE r

\* parseEmailBody, on the email that parseMessageData built from the envelope
parseEmailBody(e, lit) ==
    IF lit.readErr THEN Warn(e, "failed to read email message", "read-message")
    ELSE IF lit.readerErr THEN Warn(e, "failed to create message reader", "create-reader")
    ELSE LET e1 == processMessagePart(e, lit.parts, 1, lit.nextErr)
         IN [e1 EXCEPT !.snippet = IF e1.bodyPlain # <<>> THEN e1.bodyPlain
                                   ELSE IF e1.bodyHTML # <<>> THEN <<"s">> ELSE <<>>]

\* getEmail after the fetch: parseMessageData(msg, true) and the final checks
getEmailParsed(m, hasEnvelope, lit) ==
    IF ~hasEnvelope
    THEN [env |-> <<>>, bodyPlain |-> <<>>, bodyHTML |-> <<>>, attachments |-> <<>>,
          snippet |-> <<>>, log |-> <<>>, errs |-> <<>>, err |-> "failed to parse email"]
    ELSE parseEmailBody([env |-> <<parseMessageData(m, m.flags)>>, bodyPlain |-> <<>>,
                         bodyHTML |-> <<>>, attachments |-> <<>>, snippet |-> <<>>,
                         log |-> <<>>, errs |-> <<>>, err |-> ""], lit)

getEmailText(c) ==
    \E m \in mbox["INBOX"], lit \in Literals, hasEnvelope \in BOOLEAN :
        /\ Arrives(c)
        \* a message without envelope is fetched with one literal only
        /\ hasEnvelope \/ lit.readErr
        /\ Goto(c, "parsed")
        /\ op' = [op EXCEPT ![c] = [name |-> "getEmail", msg |-> m, lit |-> lit,
                                    hasEnvelope |-> hasEnvelope]]
        /\ res' = [res EXCEPT ![c] =
                      [Result(getEmailParsed(m, hasEnvelope, lit).err)
                         EXCEPT !.out = <<getEmailParsed(m, hasEnvelope, lit)>>]]
        /\ UNCHANGED <<mu, backend, trace, pre>>

\* ---- get_attachment: the tool handler's save step
\* save_path arguments: none, an absolute path, relative paths, a path with a
\* traversal element, and a path with a null byte (written "NUL")
SavePaths ==
    {<<>>,
     <<"/", "t", "/", "f">>,
     <<"f">>,
     <<"t", "/", "f">>,
     <<"/", "t", "/", ".", ".", "/", "f">>,
     <<"/", "t", "/", "NUL">>}

\* strings.ContainsRune
ContainsRune(s, r) == \E i \in 1..Len(s) : s[i] = r

\* filepath.IsAbs (filepath.Clean keeps the leading separator of a path)
IsAbs(path) == HasPrefix(path, <<"/">>)

\* validateSavePath: the error it returns, "" for nil
validateSavePath(path) ==
    IF path = <<>> THEN ""
    ELSE IF ContainsRune(path, "NUL") THEN "save_path must not contain null bytes"
    ELSE IF Contains(path, <<".", ".">>)
    THEN "save_path must not contain path traversal (..)"
    ELSE IF ~IsAbs(path) THEN "save_path must be an absolute path"
    ELSE ""

\* what the handler hands back: an error result or not, and the files written
ToolResult(isError, files) == [isError |-> isError, files |-> files]

\* GetAttachmentHandler: imapClient.GetAttachment succeeded or not (fetched),
\* the parent directory of save_path exists or not, os.WriteFile succeeds or
\* not; the system calls refuse a path holding a null byte with EINVAL, which
\* os.IsNotExist does not match
GetAttachmentHandler(c) ==
    \E path \in SavePaths, fetched \in BOOLEAN, dirExists \in BOOLEAN, writeOk \in BOOLEAN :
        LET statNotExist == ~ContainsRune(path, "NUL") /\ ~dirExists
            written == writeOk /\ ~ContainsRune(path, "NUL")
            r == IF ~fetched THEN ToolResult(TRUE, {})
                 ELSE IF path = <<>> THEN ToolResult(FALSE, {})
                 ELSE IF statNotExist THEN ToolResult(TRUE, {})
                 ELSE IF ~written THEN ToolResult(TRUE, {})
                 ELSE ToolResult(FALSE, {path})
        IN /\ Arrives(c)
           /\ Goto(c, "handled")
           /\ op' = [op EXCEPT ![c] = [name |-> "get_attachment", save_path |-> path,
                                       fetched |-> fetched]]
           /\ res' = [res EXCEPT ![c] =
                         [Result(IF r.isError THEN "tool error" ELSE "") EXCEPT !.out = <<r>>]]
           /\ UNCHANGED <<mu, backend, trace, pre>>

NextMsg ==
    \E c \in Callers :
        \/ SendEmailText(c) \/ ReplyToEmailText(c) \/ SaveDraftText(c) \/ getEmailText(c)
        \/ GetAttachmentHandler(c)

\* the functions that compose messages, applied by every caller to every input
SpecMsg == Init /\ [][NextMsg]_vars

\* ------------------------------------------------------ streaming fetches
\* listFolders, SearchEmails, getEmail and GetAttachment start the backend
\* command in a goroutine that sends the items on a buffered channel, closes
\* it and puts the command's status on the channel done (buffer 1)
MaxItems == 12

\* make(chan *imap.MailboxInfo, 10), make(chan *imap.Message, 10) and
\* make(chan *imap.Message, 1)
MailboxesBuffer == 10
SearchBuffer == 10
MessageBuffer == 1

RangeOps == {"listFolders", "SearchEmails"}
FirstOps == {"getEmail", "GetAttachment"}

BufferOf(name) ==
    CASE name = "listFolders" -> MailboxesBuffer
      [] name = "SearchEmails" -> SearchBuffer
      [] OTHER -> MessageBuffer

\* the frame of a streaming call: the items the backend still has to deliver
\* (pending), the items in the channel (ch), the channel closed or not, the
\* status put on done or not, the items the method has received (taken), the
\* items and status of the second fetch of GetAttachment (pending2, ok2)
StreamReq(name, k, ok, k2, ok2) ==
    [name |-> name, cap |-> BufferOf(name), pending |-> k, ok |-> ok, ch |-> 0,
     closed |-> FALSE, done |-> FALSE, taken |-> 0, nilMsg |-> FALSE,
     fetch |-> 1, pending2 |-> k2, ok2 |-> ok2]

StreamCall(c) ==
    \E name \in RangeOps \cup FirstOps, k \in 0..MaxItems, ok \in BOOLEAN,
       k2 \in 0..MaxItems, ok2 \in BOOLEAN :
        /\ Arrives(c)
        \* only GetAttachment fetches twice
        /\ name # "GetAttachment" => (k2 = 0 /\ ok2)
        /\ Enter(c, StreamReq(name, k, ok, k2, ok2), "recv")

Streaming(c) == pc[c] \in {"recv", "wait_done"}

\* the goroutine: ch <- msg blocks while the channel is full
chSend(c) ==
    /\ Streaming(c)
    /\ ~op[c].closed /\ op[c].pending > 0 /\ op[c].ch < op[c].cap
    /\ op' = [op EXCEPT ![c].pending = @ - 1, ![c].ch = @ + 1]
    /\ UNCHANGED <<mu, backend, pc, trace, res, pre>>

\* the goroutine: the command closes the channel and returns its status,
\* which is put on done
chClose(c) ==
    /\ Streaming(c)
    /\ ~op[c].closed /\ op[c].pending = 0
    /\ op' = [op EXCEPT ![c].closed = TRUE, ![c].done = TRUE]
    /\ Cmd(c, IF op[c].name = "listFolders" THEN "List" ELSE "UidFetch", "", op[c].ok)
    /\ UNCHANGED <<mu, backend, pc, res, pre>>

\* for m := range mailboxes / for msg := range messages
recvRange(c) ==
    /\ pc[c] = "recv" /\ op[c].name \in RangeOps
    /\ \/ /\ op[c].ch > 0
          /\ op' = [op EXCEPT ![c].ch = @ - 1, ![c].taken = @ + 1]
          /\ pc' = pc
       \/ /\ op[c].ch = 0 /\ op[c].closed
          /\ Goto(c, "wait_done")
          /\ op' = op
    /\ UNCHANGED <<mu, backend, trace, res, pre>>

\* msg := <-messages: one item, or nil from the closed empty channel
recvFirst(c) ==
    /\ pc[c] = "recv" /\ op[c].name \in FirstOps
    /\ \/ /\ op[c].ch > 0
          /\ op' = [op EXCEPT ![c].ch = @ - 1, ![c].taken = @ + 1]
       \/ /\ op[c].ch = 0 /\ op[c].closed
          /\ op' = [op EXCEPT ![c].nilMsg = TRUE]
    /\ Goto(c, "wait_done")
    /\ UNCHANGED <<mu, backend, trace, res, pre>>

\* <-done, and what the method does with the status
waitDone(c) ==
    /\ pc[c] = "wait_done"
    /\ op[c].done
    /\ IF op[c].nilMsg THEN Return(c, Result("email not found")) /\ op' = op
       ELSE IF ~op[c].ok THEN Return(c, Result("failed to fetch")) /\ op' = op
       ELSE IF op[c].name = "GetAttachment" /\ op[c].fetch = 1
       THEN /\ Goto(c, "recv")
            /\ op' = [op EXCEPT ![c] = [StreamReq(@.name, @.pending2, @.ok2, 0, TRUE)
                                           EXCEPT !.fetch = 2]]
            /\ res' = res
       ELSE Return(c, [Result("") EXCEPT !.count = op[c].taken]) /\ op' = op
    /\ UNCHANGED <<mu, backend, trace, pre>>

streamRet(c) ==
    /\ pc[c] = "ret"
    /\ Ret(c)
    /\ UNCHANGED backend

NextStream ==
    \/ StreamCall(1) \/ chSend(1) \/ chClose(1)
    \/ recvRange(1) \/ recvFirst(1) \/ waitDone(1) \/ streamRet(1)

\* one streaming call, for every number of items and either status
SpecStream == Init /\ [][NextStream]_vars


\* ================================================================ claims
\* labels at which a method has no backend command left to issue
RestPcs == {"idle", "ret", "done", "smtp_sendmail", "smtp_ret", "tool_ret"}

\* caller c has issued a backend command and has another one to issue
InFlight(c) == trace[c] # <<>> /\ pc[c] \notin RestPcs

FollowUpCmds == {"UidSearch", "UidFetch", "UidStore", "UidCopy", "UidMove", "Expunge"}

\* the folder named by the last Select among the first i - 1 commands of t
RECURSIVE LastSelect(_, _)
LastSelect(t, i) ==
    IF i <= 1 THEN NoFolder
    ELSE IF t[i - 1].cmd = "Select" /\ t[i - 1].ok THEN t[i - 1].arg
    ELSE LastSelect(t, i - 1)

\* C1 (mutual exclusion): every backend command is issued by a caller that
\* holds the session lock, and at most one public operation is between its
\* first and its last backend command.
C1_MutualExclusion ==
    /\ \A c \in Callers : \A i \in 1..Len(trace[c]) : trace[c][i].locked
    /\ \A c, d \in Callers : (InFlight(c) /\ InFlight(d)) => c = d

\* a delete-to-trash is in its internal move, two commands issued, while
\* the other caller's request waits
C1_Witness ==
    \E c, d \in Callers :
        /\ c # d /\ pc[d] = "idle" /\ mu = c
        /\ op[c].name = "DeleteEmail" /\ InFlight(c)
        /\ Len(trace[c]) >= 2 /\ trace[c][2].cmd = "UidMove"

\* C2 (folder-selection isolation): when an operation issues a follow-up
\* command (search, fetch, store, copy, move, expunge), the folder selected
\* on the connection is the one that same operation selected.
C2_SelectionIsolation ==
    \A c \in Callers : \A i \in 1..Len(trace[c]) :
        trace[c][i].cmd \in FollowUpCmds =>
            /\ LastSelect(trace[c], i) # NoFolder
            /\ trace[c][i].sel = LastSelect(trace[c], i)

\* an operation that found another folder selected (left by NewClient or by
\* an earlier operation of another caller) runs its follow-up command
C2_Witness ==
    \E c, d \in Callers :
        /\ c # d /\ pc[d] = "done"
        /\ Len(trace[c]) >= 2
        /\ trace[c][1].cmd = "Select" /\ trace[c][1].sel # trace[c][1].arg
        /\ trace[c][2].cmd \in FollowUpCmds

\* C3 (no self-deadlock): an operation that runs another operation's logic
\* never waits for the lock it holds; provided backend commands return,
\* whoever holds the lock releases it.
C3_NoSelfDeadlock == \A c \in Callers : (mu = c) ~> (mu # c)

\* a delete-to-trash went through both internal move attempts and is about
\* to run its deferred unlock
C3_Witness ==
    \E c \in Callers :
        /\ pc[c] = "ret" /\ mu = c
        /\ op[c].name = "DeleteEmail" /\ ~op[c].flag /\ op[c].to = "Trash"
        /\ \E i \in 1..Len(trace[c]) : trace[c][i].cmd = "UidMove" /\ trace[c][i].ok

SmtpPcs == {"smtp_sendmail", "smtp_ret"}

\* the step is one of caller c's send
SmtpStep(c) == pc'[c] # pc[c] /\ (pc[c] \in SmtpPcs \/ pc'[c] \in SmtpPcs)

SendLeavesLock == \A c \in Callers : SmtpStep(c) => mu' = mu

SendNeverWaits ==
    \A c \in Callers :
        /\ Arrives(c) => ENABLED SendEmail(c)
        /\ pc[c] = "smtp_sendmail" => ENABLED smtpSendMail(c)
        /\ pc[c] = "smtp_ret" => ENABLED smtpRet(c)

\* C4 (transmission independence): sending never takes the session lock;
\* each step of a send can be taken whoever holds the lock, and leaves the
\* lock as it is.
C4_TransmissionIndependence == [](SendNeverWaits) /\ [][SendLeavesLock]_vars

\* a send that started while another caller held the lock has completed,
\* and that caller still holds it, halfway through its commands
C4_Witness ==
    \E c, h \in Callers :
        /\ c # h /\ pc[c] = "smtp_ret" /\ res[c].err = ""
        /\ op[c].held = h /\ mu = h /\ InFlight(h)

Uids(S) == {m.uid : m \in S}

\* the message the request names, as it was when the request took the lock
Orig(c) == {m \in pre[op[c].folder] : m.uid = op[c].uid}

\* the destination holds a message that it did not hold before, with the
\* content of the named one
HasCopy(c) ==
    \A o \in Orig(c) :
        \E m \in mbox[op[c].to] : m.mid = o.mid /\ m.uid \notin Uids(pre[op[c].to])

\* the commands of one run of moveEmail towards dest, in the order of the code
MoveOrder(t, dest) ==
    /\ Len(t) <= 5
    /\ Len(t) >= 1 => t[1].cmd = "Select"
    /\ Len(t) >= 2 => t[1].ok /\ t[2].cmd = "UidMove" /\ t[2].arg = dest
    /\ Len(t) >= 3 => ~t[2].ok /\ t[3].cmd = "UidCopy" /\ t[3].arg = dest
    /\ Len(t) >= 4 => t[3].ok /\ t[4].cmd = "UidStore" /\ t[4].arg = DeletedFlag
    /\ Len(t) >= 5 => t[4].ok /\ t[5].cmd = "Expunge"

\* C5 (move step ordering): move issues the native move first; the fallback
\* runs only if the native move fails (and then always), as copy to the
\* destination, mark the source deleted, expunge, each step only after the
\* previous one succeeded.
C5_MoveStepOrdering ==
    \A c \in Callers :
        op[c].name = "MoveEmail" =>
            /\ MoveOrder(trace[c], op[c].to)
            /\ (pc[c] = "ret" /\ Len(trace[c]) = 2) => trace[c][2].ok

C5_Witness ==
    \E c \in Callers :
        /\ pc[c] = "ret" /\ op[c].name = "MoveEmail" /\ op[c].folder # op[c].to
        /\ Len(trace[c]) = 5 /\ trace[c][5].ok /\ Orig(c) # {}

\* the native move failed and copy, mark-deleted and expunge all succeeded
FallbackDone(c) ==
    /\ pc[c] = "ret" /\ op[c].name = "MoveEmail"
    /\ Len(trace[c]) = 5 /\ ~trace[c][2].ok
    /\ trace[c][3].ok /\ trace[c][4].ok /\ trace[c][5].ok

\* C6 (move fallback outcome): when the native move fails and the three
\* fallback steps succeed, move returns success, the source folder no longer
\* holds the identifier, and the destination folder holds a copy of the
\* message.
C6_FallbackOutcome ==
    \A c \in Callers :
        FallbackDone(c) =>
            /\ res[c].err = ""
            /\ op[c].uid \notin Uids(mbox[op[c].folder])
            /\ HasCopy(c)

\* C6 for a move between two different folders, or of a message that did not
\* carry \Deleted before the move
C6_FallbackOutcomeAmended ==
    \A c \in Callers :
        (/\ FallbackDone(c)
         /\ \/ op[c].folder # op[c].to
            \/ \A o \in Orig(c) : DeletedFlag \notin o.flags) =>
            /\ res[c].err = ""
            /\ op[c].uid \notin Uids(mbox[op[c].folder])
            /\ HasCopy(c)

\* a fallback move between two folders has completed
C6_AmendedWitness ==
    \E c \in Callers :
        /\ FallbackDone(c) /\ Orig(c) # {} /\ op[c].folder # op[c].to
        /\ \A o \in Orig(c) : o.flags = {SeenFlag}

\* a fallback move within one folder, of a message that carried \Deleted,
\* has returned success and the message is in no folder
C6_Lost ==
    \E c \in Callers :
        /\ FallbackDone(c) /\ res[c].err = "" /\ op[c].folder = op[c].to
        /\ \E o \in Orig(c) :
              /\ DeletedFlag \in o.flags
              /\ \A f \in Folders : \A m \in mbox[f] : m.mid # o.mid

\* C7 (move partial failure): if the copy succeeds and marking the source
\* deleted fails, move returns an error right there (no further command,
\* none that removes the destination copy), and the message is in both the
\* source and the destination.
C7_PartialFailure ==
    \A c \in Callers :
        (/\ op[c].name = "MoveEmail" /\ Len(trace[c]) >= 4
         /\ trace[c][3].cmd = "UidCopy" /\ trace[c][3].ok /\ ~trace[c][4].ok) =>
            /\ pc[c] = "ret" /\ Len(trace[c]) = 4
            /\ res[c].err # ""
            /\ \A o \in Orig(c) : o \in mbox[op[c].folder]
            /\ HasCopy(c)

C7_Witness ==
    \E c \in Callers :
        /\ pc[c] = "ret" /\ op[c].name = "MoveEmail" /\ Orig(c) # {}
        /\ Len(trace[c]) = 4 /\ trace[c][3].ok /\ ~trace[c][4].ok
        /\ op[c].to = "Trash" /\ op[c].folder = "INBOX"

SelIdx(t) == {i \in 1..Len(t) : t[i].cmd = "Select"}

\* position of the second Select of t (one past the end when there is none)
Second(t) ==
    IF Cardinality(SelIdx(t)) >= 2
    THEN CHOOSE i \in SelIdx(t) : \A j \in SelIdx(t) : j <= i
    ELSE Len(t) + 1

Attempt1(t) == SubSeq(t, 1, Second(t) - 1)

Attempt2(t) == SubSeq(t, Second(t), Len(t))

\* the attempt ended with the message moved
Moved(a) == (Len(a) = 2 /\ a[2].ok) \/ (Len(a) = 5 /\ a[5].ok)

PermanentOrder(t, f) ==
    /\ Len(t) <= 3
    /\ Len(t) >= 1 => t[1].cmd = "Select" /\ t[1].arg = f
    /\ Len(t) >= 2 => t[1].ok /\ t[2].cmd = "UidStore" /\ t[2].arg = DeletedFlag
    /\ Len(t) >= 3 => t[2].ok /\ t[3].cmd = "Expunge"

\* C8 (delete path selection): with permanent set, delete issues only select,
\* mark-deleted and expunge on the given folder, never a move or a copy;
\* otherwise it attempts a move to "Deleted Messages", attempts "Trash" only
\* if (and whenever) the first attempt failed, and returns an error exactly
\* when both attempts failed.
C8_DeletePathSelection ==
    \A c \in Callers :
        op[c].name = "DeleteEmail" =>
            LET t == trace[c] IN
            IF op[c].flag
            THEN /\ PermanentOrder(t, op[c].folder)
                 /\ pc[c] = "ret" => (res[c].err = "" <=> (Len(t) = 3 /\ t[3].ok))
            ELSE /\ Cardinality(SelIdx(t)) <= 2
                 /\ MoveOrder(Attempt1(t), "Deleted Messages")
                 /\ Attempt2(t) # <<>> =>
                        ~Moved(Attempt1(t)) /\ MoveOrder(Attempt2(t), "Trash")
                 /\ pc[c] = "ret" =>
                        /\ Attempt2(t) = <<>> => Moved(Attempt1(t))
                        /\ res[c].err # "" <=> (Attempt2(t) # <<>> /\ ~Moved(Attempt2(t)))

\* both trash names were tried and both attempts failed
C8_Witness ==
    \E c \in Callers :
        /\ pc[c] = "ret" /\ op[c].name = "DeleteEmail" /\ ~op[c].flag
        /\ res[c].err # "" /\ Attempt2(trace[c]) # <<>>
        /\ Len(Attempt1(trace[c])) >= 3

\* the folder of a DeleteFolder request was counted
Counted(c) == Len(trace[c]) >= 2 /\ trace[c][2].cmd = "UidSearch" /\ trace[c][2].ok

\* C9: deleteFolder without force on a folder that holds n > 0 messages
\* issues no folder-delete command and reports wasEmpty = false with count n.
C9_NonEmptyNotDeleted ==
    \A c \in Callers :
        (op[c].name = "DeleteFolder" /\ ~op[c].flag /\ pre[op[c].folder] # {}) =>
            /\ \A i \in 1..Len(trace[c]) : trace[c][i].cmd # "Delete"
            /\ (pc[c] = "ret" /\ Counted(c)) =>
                   /\ ~res[c].wasEmpty
                   /\ res[c].count = Cardinality(pre[op[c].folder])
                   /\ op[c].folder \in exists

C9_Witness ==
    \E c \in Callers :
        /\ pc[c] = "ret" /\ op[c].name = "DeleteFolder" /\ ~op[c].flag
        /\ op[c].folder = "Trash" /\ Counted(c) /\ res[c].count = 1

\* C10: the non-empty-without-force outcome of folder deletion reaches the
\* caller as the structured non-error result with the count, every hard
\* error (folder inaccessible, backend delete failure) as a tool error, and
\* neither is ever reported as the other.
C10_NonEmptyDistinctFromError ==
    \A c \in Callers :
        (pc[c] = "ret" /\ op[c].name = "DeleteFolder") =>
            LET n == Cardinality(pre[op[c].folder])
                nonEmpty == Counted(c) /\ n > 0 /\ ~op[c].flag
                hard == \/ ~Counted(c)
                        \/ \E i \in 1..Len(trace[c]) :
                              trace[c][i].cmd = "Delete" /\ ~trace[c][i].ok
            IN /\ nonEmpty => (res[c].tool = "not_empty" /\ res[c].count = n)
               /\ hard => res[c].tool = "error"
               /\ res[c].tool = "not_empty" <=> nonEmpty
               /\ res[c].tool = "error" <=> hard

\* a forced delete of a folder with messages failed at the backend
C10_Witness ==
    \E c \in Callers :
        /\ pc[c] = "ret" /\ op[c].name = "DeleteFolder" /\ op[c].flag
        /\ res[c].count > 0 /\ res[c].tool = "error" /\ Len(trace[c]) = 3

\* C11 (system folders): for a name in {INBOX, Sent, Trash}, folder deletion
\* never issues a folder-delete command, whatever force and the contents.
C11_SystemFoldersKept ==
    \A c \in Callers :
        (op[c].name = "DeleteFolder" /\ op[c].folder \in SystemFolders) =>
            \A i \in 1..Len(trace[c]) : trace[c][i].cmd # "Delete"

\* a delete of Sent was issued and succeeded: the folder is gone
C11_SentDeleted ==
    \E c \in Callers :
        /\ pc[c] = "ret" /\ op[c].name = "DeleteFolder" /\ op[c].folder = "Sent"
        /\ res[c].tool = "deleted" /\ "Sent" \notin exists

\* a search has returned a list
SearchDone(c) == pc[c] = "ret" /\ op[c].name = "SearchEmails" /\ res[c].err = ""

\* the identifiers that the filters of request c match, ascending
MatchList(c) == SearchResult(op[c].folder, Criteria(op[c]))

SeqSet(q) == {q[i] : i \in 1..Len(q)}

\* the identifiers of the messages in a returned list
OutUids(c) == {ParseUID(res[c].out[i].id).uid : i \in 1..Len(res[c].out)}

\* C12: the total returned by search is the number of identifiers matched
\* before windowing; when offset >= total the list is empty and total is
\* still the full match count.
C12_TotalBeforeWindow ==
    \A c \in Callers :
        SearchDone(c) =>
            /\ res[c].count = Len(MatchList(c))
            /\ op[c].offset >= Len(MatchList(c)) => res[c].out = <<>>

C12_Witness ==
    \E c \in Callers :
        /\ SearchDone(c) /\ Len(MatchList(c)) >= 2
        /\ op[c].offset >= Len(MatchList(c)) /\ res[c].count = Len(MatchList(c))

\* a search has cut its window and issues (or has issued) the summary fetch
Fetching(c) ==
    /\ op[c].name = "SearchEmails"
    /\ pc[c] = "se_fetch" \/ (pc[c] = "ret" /\ Len(trace[c]) = 3)

Min(a, b) == IF a <= b THEN a ELSE b

\* the k highest identifiers left after dropping the offset highest of q
Newest(q, offset, k) ==
    LET rest == SubSeq(q, 1, Len(q) - offset)
    IN SeqSet(SubSeq(rest, Len(rest) - k + 1, Len(rest)))

\* C13 as stated: for every offset < total and every limit, the identifiers
\* fetched are the min(limit, total - offset) most recent ones that remain
\* after dropping the offset most recent.
C13_WindowAnyLimit ==
    \A c \in Callers :
        Fetching(c) =>
            /\ op[c].offset < Len(MatchList(c))
            /\ SeqSet(op[c].uids) =
                   Newest(MatchList(c), op[c].offset,
                          Min(op[c].limit, Len(MatchList(c)) - op[c].offset))

\* C13 (amended): that holds for every limit >= 1; a limit of 0 means no
\* limit, and all total - offset remaining identifiers are fetched.
C13_Window ==
    \A c \in Callers :
        Fetching(c) =>
            LET rest == Len(MatchList(c)) - op[c].offset IN
            /\ op[c].offset < Len(MatchList(c))
            /\ SeqSet(op[c].uids) =
                   Newest(MatchList(c), op[c].offset,
                          IF op[c].limit >= 1 THEN Min(op[c].limit, rest) ELSE rest)

\* two identifiers remain and the limit keeps the newer one
C13_Witness ==
    \E c \in Callers :
        /\ Fetching(c) /\ op[c].limit = 1
        /\ Len(MatchList(c)) - op[c].offset >= 2
        /\ Len(op[c].uids) = 1

\* C14: search results are most-recent-first: a message with a higher
\* identifier precedes every message with a lower one.
C14_MostRecentFirst ==
    \A c \in Callers :
        SearchDone(c) =>
            \A i, j \in 1..Len(res[c].out) :
                i < j => ParseUID(res[c].out[i].id).uid > ParseUID(res[c].out[j].id).uid

\* a search returned the older message before the newer one
C14_OldestFirst ==
    \E c \in Callers :
        /\ SearchDone(c) /\ Len(res[c].out) >= 2
        /\ ParseUID(res[c].out[1].id).uid < ParseUID(res[c].out[2].id).uid

\* the messages of the folder of request c inside its date bounds
InRange(c) ==
    {m \in mbox[op[c].folder] : Matches(m, [Criteria(op[c]) EXCEPT !.unseen = FALSE])}

C16_SinceWins ==
    \A c \in Callers :
        (/\ pc[c] = "ret" /\ op[c].name \in {"SearchEmails", "CountEmails"}
         /\ res[c].err = "" /\ op[c].since # NoDate /\ op[c].lastDays > 0) =>
            res[c].count =
                Cardinality({m \in mbox[op[c].folder] :
                                /\ DateOf(m.mid) >= op[c].since
                                /\ op[c].before # NoDate => DateOf(m.mid) < op[c].before
                                /\ op[c].unreadOnly => SeenFlag \notin m.flags})

\* a count with both bounds left out a message that LastDays alone admits
C16_Witness ==
    \E c \in Callers :
        /\ pc[c] = "ret" /\ op[c].name = "CountEmails" /\ res[c].err = ""
        /\ op[c].since # NoDate /\ op[c].lastDays > 0 /\ res[c].count >= 1
        /\ \E m \in mbox[op[c].folder] :
              DateOf(m.mid) < op[c].since /\ DateOf(m.mid) >= Today - op[c].lastDays

\* MarkRead has returned without error
MarkDone(c) == pc[c] = "ret" /\ op[c].name = "MarkRead" /\ res[c].err = ""

\* message uid of folder f carries the seen marker in mailbox state mb
SeenIn(mb, f, uid) == \E m \in mb[f] : m.uid = uid /\ SeenFlag \in m.flags

\* C17: a successful MarkRead(folder, id, r) leaves the seen marker of that
\* message equal to r whatever it was before, a second application changes
\* nothing (the call on a mailbox where the marker is already r leaves the
\* mailbox as it was), and no other marker and no other message changes.
C17_MarkReadIdempotent ==
    \A c \in Callers :
        MarkDone(c) =>
            LET f == op[c].folder
                u == op[c].uid
            IN /\ \A g \in Folders \ {f} : mbox[g] = pre[g]
               /\ Cardinality(mbox[f]) = Cardinality(pre[f])
               /\ \A m \in pre[f] :
                     IF m.uid = u
                     THEN [m EXCEPT !.flags = IF op[c].flag THEN @ \cup {SeenFlag}
                                                            ELSE @ \ {SeenFlag}] \in mbox[f]
                     ELSE m \in mbox[f]
               /\ (\A m \in pre[f] : m.uid = u => (SeenFlag \in m.flags <=> op[c].flag))
                     => mbox = pre

\* a MarkRead(.., true) on a message that an earlier call had already marked
\* leaves the mailbox as it found it
C17_Witness ==
    \E c \in Callers :
        /\ MarkDone(c) /\ op[c].flag /\ c > 1
        /\ SeenIn(pre, op[c].folder, op[c].uid)
        /\ \E m \in pre[op[c].folder] : m.uid # op[c].uid
        /\ mbox = pre

\* a MarkRead changed the marker, in each direction
C17_WitnessSet ==
    \E c \in Callers :
        /\ MarkDone(c) /\ ~op[c].flag
        /\ SeenIn(pre, op[c].folder, op[c].uid)
        /\ ~SeenIn(mbox, op[c].folder, op[c].uid)

\* GetEmail has returned a message
GetDone(c) ==
    pc[c] = "ret" /\ op[c].name = "GetEmail" /\ res[c].err = "" /\ Len(res[c].out) = 1

\* what a summary fetch reports for message uid of folder f in mailbox state
\* mb: the envelope fields and the flags as they stand
SummaryOf(mb, f, uid) == {parseMessageData(m, m.flags) : m \in {x \in mb[f] : x.uid = uid}}

\* every message a search returns is reported as SummaryOf gives it
SearchReportsSummary ==
    \A c \in Callers :
        SearchDone(c) =>
            \A i \in 1..Len(res[c].out) :
                res[c].out[i] \in
                    SummaryOf(mbox, op[c].folder, ParseUID(res[c].out[i].id).uid)

\* C18: a summary fetch and a full fetch of the same message, in either
\* order and with no mutating operation between them, report the same
\* subject, sender, date and unread state: what GetEmail returns is what a
\* search reports just before it (on pre) and just after it (on mbox).
C18_SummaryFullAgree ==
    \A c \in Callers :
        GetDone(c) =>
            /\ SummaryOf(pre, op[c].folder, op[c].uid) = {res[c].out[1]}
            /\ SummaryOf(mbox, op[c].folder, op[c].uid) = {res[c].out[1]}

\* GetEmail reported an unread message as unread, and a search that follows
\* reports it as read
C18_Disagree ==
    \E c \in Callers :
        /\ GetDone(c) /\ res[c].out[1].unread
        /\ SummaryOf(pre, op[c].folder, op[c].uid) = {res[c].out[1]}
        /\ \E e \in SummaryOf(mbox, op[c].folder, op[c].uid) :
              /\ ~e.unread
              /\ e = [res[c].out[1] EXCEPT !.unread = FALSE]

ReadOnlyOps == {"SearchEmails", "GetEmail", "CountEmails", "ListFolders", "GetAttachment"}

\* the operations that fetch no message body leave the mailbox as it was
ReadOnlyWithoutBody ==
    \A c \in Callers :
        (pc[c] = "ret" /\ op[c].name \in {"SearchEmails", "CountEmails", "ListFolders"})
            => mbox = pre

BadFlagRequest(c) ==
    /\ op[c].name \in {"FlagEmail", "FlagEmailHandler"}
    /\ op[c].ftype \notin ValidFlags \/ (op[c].color # "" /\ op[c].color \notin ValidColors)

C20_SelectedFirst ==
    \E c \in Callers :
        /\ BadFlagRequest(c) /\ op[c].name = "FlagEmail"
        /\ pc[c] = "ret" /\ res[c].err = "invalid flag type"
        /\ Len(trace[c]) = 1 /\ trace[c][1].cmd = "Select"

\* the operations that take a message identifier
IdOps == {"GetEmail", "MarkRead", "MoveEmail", "DeleteEmail", "FlagEmail",
          "FlagEmailHandler", "GetAttachment"}

\* id is the decimal text of an unsigned 32-bit integer: digits only
IsUintText(id) == id # <<>> /\ DigitPrefix(id) = id /\ ~Overflows(id)

\* C21: in every operation that takes a message identifier, an identifier
\* that is not a string-encoded unsigned integer is rejected with an error
\* before any backend command is issued, folder selection included.
C21_BadIdRejectedFirst ==
    \A c \in Callers :
        (op[c].name \in IdOps /\ ~IsUintText(op[c].id)) =>
            /\ trace[c] = <<>>
            /\ pc[c] \in {"ret", "tool_ret"} => res[c].err # ""

\* MarkRead with identifier "a" returns the format error after it has
\* selected the folder
C21_SelectedFirst ==
    \E c \in Callers :
        /\ op[c].name = "MarkRead" /\ op[c].id = <<"a">> /\ pc[c] = "ret"
        /\ res[c].err = "invalid email ID format"
        /\ Len(trace[c]) = 1 /\ trace[c][1].cmd = "Select" /\ trace[c][1].ok

\* MarkRead with identifier "2a" is not rejected: it marks message 2
C21_TrailingAccepted ==
    \E c \in Callers :
        /\ MarkDone(c) /\ op[c].id = <<"2", "a">> /\ op[c].flag
        /\ ~SeenIn(pre, op[c].folder, 2) /\ SeenIn(mbox, op[c].folder, 2)

\* message uid of folder f carries every flag of fl in mailbox state mb
Carries(mb, f, uid, fl) == \E m \in mb[f] : m.uid = uid /\ fl \subseteq m.flags

\* caller c has run flag(id, "none") up to its store command on a message
\* that an earlier flag(id, "important", "red") had flagged
NoneAfterImportantRed(c) ==
    /\ pc[c] = "ret" /\ op[c].name \in {"FlagEmail", "FlagEmailHandler"}
    /\ op[c].ftype = "none" /\ Len(trace[c]) = 2
    /\ Carries(pre, op[c].folder, op[c].uid, {FlaggedFlag, "$Important", "$FlagRed"})

\* C22: after flag(id, "important", "red") followed by flag(id, "none"), the
\* message no longer carries the flagged marker and the second call returns
\* no error, also when the backend fails to remove keywords.
C22_NoneClearsFlagged ==
    \A c \in Callers :
        NoneAfterImportantRed(c) =>
            /\ res[c].err = ""
            /\ ~Carries(mbox, op[c].folder, op[c].uid, {FlaggedFlag})

\* the store of flag(id, "none") failed, the call returned nil and the
\* message is still flagged
C22_StillFlagged ==
    \E c \in Callers :
        /\ NoneAfterImportantRed(c) /\ ~trace[c][2].ok /\ res[c].err = ""
        /\ Carries(mbox, op[c].folder, op[c].uid, {FlaggedFlag, "$Important", "$FlagRed"})

\* flag(id, "none") never reports an error of its store command
NoneReturnsNil ==
    \A c \in Callers : NoneAfterImportantRed(c) => res[c].err = ""

\* when the store succeeds the flagged marker and the keywords are gone
NoneClearsOnSuccess ==
    \A c \in Callers :
        (NoneAfterImportantRed(c) /\ trace[c][2].ok) =>
            \A m \in mbox[op[c].folder] :
                m.uid = op[c].uid => m.flags \cap AllFlagKeywords = {}

\* caller c has composed a message with one of the named functions
Did(c, names) == pc[c] = "composed" /\ op[c].name \in names

\* the message composed by caller c
Text(c) == res[c].out[1]

\* the header fields that hold texts
TextKeys == {"From", "To", "Cc", "Bcc", "Subject", "X-Custom"}

\* address a stands in a field of header h other than the To and Cc lines
\* that list it as a To or Cc recipient
Leaks(h, a) ==
    \/ \E k \in TextKeys \ {"To", "Cc"} : a \in SeqSet(h[k])
    \/ h["Bcc"] # <<>>

\* C23: for every send or reply with a non-empty Bcc list, every Bcc address
\* is in the recipient set handed to the transport (To + Cc + Bcc), no header
\* field is made from the Bcc list, and two sends that differ only in Bcc
\* render the same header.
C23_BccEnvelopeOnly ==
    /\ \A c \in Callers :
          (Did(c, {"SendEmail", "ReplyToEmail"}) /\ op[c].opts.bcc # <<>>) =>
              /\ SeqSet(op[c].opts.bcc) \subseteq SeqSet(Text(c).recipients)
              /\ Text(c).recipients =
                     Text(c).hdr["To"] \o Text(c).hdr["Cc"] \o op[c].opts.bcc
              /\ \A a \in SeqSet(op[c].opts.bcc) : ~Leaks(Text(c).hdr, a)
    /\ \A c, d \in Callers :
          (/\ Did(c, {"SendEmail", "ReplyToEmail"})
           /\ Did(d, {"SendEmail", "ReplyToEmail"})
           /\ [op[c] EXCEPT !.opts.bcc = <<>>] = [op[d] EXCEPT !.opts.bcc = <<>>])
              => Text(c).hdr = Text(d).hdr

\* two sends that differ in their Bcc lists only: both envelopes carry the
\* Bcc addresses, and the headers are the same
C23_Witness ==
    \E c, d \in Callers :
        /\ Did(c, {"SendEmail"}) /\ Did(d, {"SendEmail"})
        /\ op[c].opts.bcc = <<AddrC>> /\ op[d].opts.bcc = <<AddrC, AddrA>>
        /\ [op[c] EXCEPT !.opts.bcc = <<>>] = [op[d] EXCEPT !.opts.bcc = <<>>]
        /\ AddrC \in SeqSet(Text(c).recipients)
        /\ Text(c).hdr = Text(d).hdr /\ Text(c).recipients # Text(d).recipients

\* C24: for every saved draft with a non-empty Bcc list, the header text
\* appended to the drafts folder contains no Bcc address.
C24_DraftHidesBcc ==
    \A c \in Callers :
        (Did(c, {"SaveDraft"}) /\ op[c].opts.bcc # <<>>) =>
            \A a \in SeqSet(op[c].opts.bcc) : ~Leaks(Text(c).hdr, a)

\* a draft with Bcc c was composed and its header has the line "Bcc: c"
C24_BccInDraft ==
    \E c \in Callers :
        /\ Did(c, {"SaveDraft"}) /\ op[c].opts.bcc = <<AddrC>>
        /\ Text(c).hdr["Bcc"] = <<AddrC>>

\* caller c has composed a reply: a sent reply or a reply draft
Replied(c) ==
    \/ Did(c, {"ReplyToEmail"})
    \/ Did(c, {"SaveDraft"}) /\ op[c].original.reply

\* the subject line of the message composed by caller c
SubjectOf(c) == Text(c).hdr["Subject"][1]

\* C25: the subject of a reply (sent or draft) is the original subject, with
\* "Re: " prepended only when the original does not already start with that
\* prefix in any letter case; a reply to a subject that starts with "Re: "
\* and has no "Re: Re:" in it has no "Re: Re:" in it either.
C25_ReplySubject ==
    \A c \in Callers :
        Replied(c) =>
            LET o == op[c].original.subject IN
            /\ SubjectOf(c) \in {o, RePrefix \o o}
            /\ SubjectOf(c) # o => ~HasPrefix(ToLower(o), ToLower(RePrefix))
            /\ ~HasPrefix(ToLower(o), <<"r", "e", ":">>) => SubjectOf(c) = RePrefix \o o
            /\ (HasPrefix(ToLower(o), ToLower(RePrefix)) /\ ~Contains(o, RePrefix \o RePrefix))
                  => ~Contains(SubjectOf(c), RePrefix \o RePrefix)

\* a reply to "RE: x" keeps the subject, a reply draft to "x" gets "Re: x"
C25_Witness ==
    \E c, d \in Callers :
        /\ Did(c, {"ReplyToEmail"}) /\ op[c].original.subject = <<"R", "E", ":", " ", "x">>
        /\ SubjectOf(c) = op[c].original.subject
        /\ Did(d, {"SaveDraft"}) /\ op[d].original.reply
        /\ op[d].original.subject = <<"x">> /\ SubjectOf(d) = <<"R", "e", ":", " ", "x">>

\* address a contains the account's address, letter case ignored
IsSelf(a) == Contains(ToLower(a), ToLower(Username))

\* C26: the primary recipient of a reply is the original sender; with
\* reply-all the recipients also include every original To and Cc address
\* except those that contain the account's own address in any letter case, so
\* that the account never receives its own reply-all.
C26_ReplyAllSkipsSelf ==
    \A c \in Callers :
        Did(c, {"ReplyToEmail"}) =>
            LET o == op[c].original IN
            /\ Text(c).hdr["To"] = <<o.from>>
            /\ SeqSet(Text(c).hdr["Cc"]) =
                   IF op[c].replyAll THEN {a \in SeqSet(o.to \o o.cc) : ~IsSelf(a)} ELSE {}
            /\ \A a \in SeqSet(Text(c).hdr["To"] \o Text(c).hdr["Cc"]) : ~IsSelf(a)

\* a reply-all to a message addressed to "Me" is sent to "Me" as well
C26_SelfReceives ==
    \E c \in Callers :
        /\ Did(c, {"ReplyToEmail"}) /\ op[c].replyAll
        /\ AddrSelfUpper \in SeqSet(op[c].original.to)
        /\ AddrSelfUpper \in SeqSet(Text(c).recipients)

\* the addresses left out are those that contain the username exactly as it
\* is configured
ReplyAllSkipsExactSelf ==
    \A c \in Callers :
        Did(c, {"ReplyToEmail"}) =>
            LET o == op[c].original IN
            /\ Text(c).hdr["To"] = <<o.from>>
            /\ SeqSet(Text(c).hdr["Cc"]) =
                   IF op[c].replyAll
                   THEN {a \in SeqSet(o.to \o o.cc) : ~Contains(a, Username)} ELSE {}

\* C27: when the original has a Message-ID, the reply's In-Reply-To is that
\* Message-ID and its References is the original's References list followed
\* by that Message-ID; when the original has none, neither header is emitted.
C27_ThreadingHeaders ==
    \A c \in Callers :
        Replied(c) =>
            LET o == op[c].original IN
            IF o.messageID # ""
            THEN /\ Text(c).hdr["In-Reply-To"] = <<o.messageID>>
                 /\ Text(c).hdr["References"] = o.references \o <<o.messageID>>
            ELSE /\ Text(c).hdr["In-Reply-To"] = <<>>
                 /\ Text(c).hdr["References"] = <<>>

\* a sent reply to a message that has a Message-ID and a References list, and
\* a reply draft to a message without Message-ID
C27_Witness ==
    \E c, d \in Callers :
        /\ Did(c, {"ReplyToEmail"}) /\ op[c].original.messageID = "<m1>"
        /\ op[c].original.references = <<"<m0>">>
        /\ Text(c).hdr["References"] = <<"<m0>", "<m1>">>
        /\ Did(d, {"SaveDraft"}) /\ op[d].original.reply /\ op[d].original.messageID = ""
        /\ Text(d).hdr["References"] = <<>>

AllComposers == {"SendEmail", "ReplyToEmail", "SaveDraft"}

\* C28: any two composed messages (sends, replies or drafts), also two
\* composed at the same clock reading for the same account, carry distinct
\* Message-IDs.
C28_DistinctMessageIds ==
    \A c, d \in Callers :
        (c # d /\ Did(c, AllComposers) /\ Did(d, AllComposers)) =>
            Text(c).hdr["Message-ID"] # Text(d).hdr["Message-ID"]

\* a send and a reply composed at the same clock reading have the same
\* Message-ID
C28_SameId ==
    \E c, d \in Callers :
        /\ c # d /\ Did(c, {"SendEmail"}) /\ Did(d, {"ReplyToEmail"})
        /\ op[c].now = op[d].now
        /\ Text(c).hdr["Message-ID"] = Text(d).hdr["Message-ID"]

\* a draft's Message-ID differs from that of every other composed message
DraftIdsDistinct ==
    \A c, d \in Callers :
        (c # d /\ Did(c, {"SaveDraft"}) /\ Did(d, AllComposers)) =>
            Text(c).hdr["Message-ID"] # Text(d).hdr["Message-ID"]

\* caller c has parsed a fetched message that has an envelope
Parsed(c) == pc[c] = "parsed" /\ op[c].hasEnvelope

\* the email returned to caller c, with the log events and the errors met
Email(c) == res[c].out[1]

\* the number of parts that were read before the parse stopped
PartsRead(lit) ==
    IF lit.readErr \/ lit.readerErr THEN 0
    ELSE IF lit.nextErr \in 1..(Len(lit.parts) + 1) THEN lit.nextErr - 1
    ELSE Len(lit.parts)

\* the content of the last part of the given kind among the first n parts
LastRead(parts, n, kind) ==
    LET idx == {i \in 1..n : parts[i].kind = kind}
    IN IF idx = {} THEN <<>>
       ELSE ReadBody(parts[CHOOSE i \in idx : \A j \in idx : j <= i])

C30_EveryFailureLogged ==
    \A c \in Callers :
        Parsed(c) => Len(Email(c).log) = Len(Email(c).errs)

\* the read of a text part failed midway: the body is cut short and nothing
\* is logged
C30_SilentTruncation ==
    \E c \in Callers :
        /\ Parsed(c) /\ Email(c).errs = <<"part-body">> /\ Email(c).log = <<>>
        /\ Email(c).bodyPlain = <<"p">>

\* the failures of reading the message, of creating the reader and of
\* reading the next part are logged
StageFailuresLogged ==
    \A c \in Callers :
        Parsed(c) =>
            Len(Email(c).log) =
                Cardinality({i \in 1..Len(Email(c).errs) :
                    Email(c).errs[i] \in {"read-message", "create-reader", "next-part"}})

\* Close has returned to caller c
Closed(c) == pc[c] = "ret" /\ op[c].name = "Close"

\* the session was logged out before caller c issued its Logout
FoundLoggedOut(c) == loggedOut /\ ~trace[c][1].ok

\* C31: Close logs out; calling it again, in sequence or concurrently with
\* other operations, does not fail after the first call: a Close that finds
\* the session already logged out returns no error.
C31_CloseRepeatable ==
    \A c \in Callers :
        Closed(c) =>
            /\ res[c].err = "" => loggedOut
            /\ FoundLoggedOut(c) => res[c].err = ""

\* the second Close, after a first one that logged out, returns an error
C31_SecondCloseFails ==
    \E c \in Callers :
        /\ Closed(c) /\ c > 1 /\ FoundLoggedOut(c)
        /\ Len(trace[c]) = 1 /\ trace[c][1].cmd = "Logout"
        /\ res[c].err # ""

\* a Close that returns no error has logged out with one Logout command
CloseLogsOut ==
    \A c \in Callers :
        (Closed(c) /\ res[c].err = "") =>
            /\ loggedOut
            /\ Len(trace[c]) = 1 /\ trace[c][1].cmd = "Logout" /\ trace[c][1].ok

\* ---------------------------------------------------------------- C32
Handled(c) == pc[c] = "handled" /\ op[c].name = "get_attachment"

\* C32: get_attachment never writes a file when save_path contains "..",
\* contains a null byte or is a relative path; such a request ends in an
\* error result
C32_UnsafePathRejected ==
    \A c \in Callers :
        (Handled(c) /\ validateSavePath(op[c].save_path) # "")
            => (res[c].out[1].files = {} /\ res[c].out[1].isError)

\* a request whose save_path holds a null byte has ended in an error result
\* with no file written
C32_NullByteRejected ==
    \E c \in Callers :
        /\ Handled(c) /\ op[c].fetched
        /\ ContainsRune(op[c].save_path, "NUL")
        /\ res[c].out[1].files = {} /\ res[c].out[1].isError

\* only the null byte is refused, and by the system call: no file is ever
\* written to a path that holds one
NullByteNeverWritten ==
    \A c \in Callers :
        (Handled(c) /\ ContainsRune(op[c].save_path, "NUL")) => res[c].out[1].files = {}

\* ---------------------------------------------------------------- C33
\* the goroutine has an item to send, the channel is full, and the method
\* waits for the status without reading the channel again
ProducerStuck(c) ==
    /\ pc[c] = "wait_done" /\ ~op[c].done
    /\ op[c].pending > 0 /\ op[c].ch = op[c].cap

\* C33: for each streaming operation and any number of items delivered
\* before the completion status, the producer is never left blocked on a
\* full channel while the consumer waits for the status
C33_ProducerNeverStuck == \A c \in Callers : ~ProducerStuck(c)

\* listing folders has returned all the items of a stream longer than the
\* channel's buffer
C33_RangeDrainsLongStream ==
    \E c \in Callers : pc[c] = "ret" /\ res[c].err = "" /\ res[c].count > MailboxesBuffer

\* the operations that range over the channel never leave the producer stuck
RangeNeverStuck ==
    \A c \in Callers : (Streaming(c) /\ op[c].name \in RangeOps) => ~ProducerStuck(c)

\* ---------------------------------------------------------------- C34
\* the commands of the call in progress that failed
FailedAt(c) == {i \in 1..Len(trace[c]) : ~trace[c][i].ok}

SelectsUpTo(c, i) == Cardinality({j \in 1..i : trace[c][j].cmd = "Select"})

TrashDelete(c) == op[c].name = "DeleteEmail" /\ ~op[c].flag

\* the command after the failed native move is the copy of the fallback
MoveFallback(c, i) == trace[c][i].cmd = "UidMove" /\ trace[c][i + 1].cmd = "UidCopy"

\* the command after a failure of the first trash attempt opens the second
AltTrash(c, i) ==
    TrashDelete(c) /\ SelectsUpTo(c, i) = 1 /\ trace[c][i + 1].cmd = "Select"

FlagNone(c) == op[c].name \in {"FlagEmail", "FlagEmailHandler"} /\ op[c].ftype = "none"

\* after a failed command comes no further command, but for the move
\* fallback and the alternate trash name, and a call whose last command
\* failed returns an error, but for flag "none"
FailFast ==
    \A c \in Callers :
        /\ \A i \in FailedAt(c) :
              i < Len(trace[c]) => (MoveFallback(c, i) \/ AltTrash(c, i))
        /\ (pc[c] = "ret" /\ Len(trace[c]) \in FailedAt(c))
              => (res[c].err # "" \/ FlagNone(c))

\* command j repeats the failed command i
Reissued(c, i, j) ==
    /\ i \in FailedAt(c) /\ j \in (i + 1)..Len(trace[c])
    /\ trace[c][j].cmd = trace[c][i].cmd /\ trace[c][j].arg = trace[c][i].arg

TrashAttemptRepeatsStore ==
    \E c \in Callers : \E i, j \in 1..Len(trace[c]) :
        Reissued(c, i, j) /\ trace[c][i].cmd = "UidStore"

\* ---------------------------------------------------------------- C35
\* the message that the identifier of the request names, as it was when the
\* request took the lock
Target(c) ==
    {m \in pre[op[c].folder] : ParseUID(op[c].id).ok /\ m.uid = ParseUID(op[c].id).uid}

Holds(f, o) == \E m \in mbox[f] : m.mid = o.mid

MoveReturned(c) == pc[c] = "ret" /\ op[c].name = "MoveEmail"

\* C35: whatever the outcome of move, at any step of the primary path or the
\* fallback, the message is in the source folder or in the destination
\* folder when move returns
C35_MoveConserves ==
    \A c \in Callers :
        MoveReturned(c) =>
            \A o \in Target(c) : Holds(op[c].folder, o) \/ Holds(op[c].to, o)

\* a move whose fallback failed at the expunge has returned an error and the
\* message is in both folders
C35_KeptInBoth ==
    \E c \in Callers :
        /\ MoveReturned(c) /\ res[c].err # "" /\ Len(trace[c]) = 5
        /\ op[c].folder # op[c].to
        /\ \E o \in Target(c) : Holds(op[c].folder, o) /\ Holds(op[c].to, o)

\* a move between two different folders, or of a message that did not carry
\* \Deleted, never loses the message
MoveConservesElsewhere ==
    \A c \in Callers :
        MoveReturned(c) =>
            \A o \in Target(c) :
                (op[c].folder # op[c].to \/ DeletedFlag \notin o.flags)
                    => (Holds(op[c].folder, o) \/ Holds(op[c].to, o))

\* ---------------------------------------------------------------- C36
\* the move or permanent delete of caller c has run its expunge
Expunged(c) ==
    /\ pc[c] = "ret" /\ op[c].name \in {"MoveEmail", "DeleteEmail"}
    /\ Len(trace[c]) >= 1
    /\ trace[c][Len(trace[c])].cmd = "Expunge" /\ trace[c][Len(trace[c])].ok

\* the messages of the source folder other than the one the request names
Others(c) == pre[op[c].folder] \ Target(c)

\* C36: the move fallback and the permanent delete remove only the targeted
\* message from the source folder; every other message that was there
\* before, also one that already carried \Deleted, is still there
C36_ExpungeFrame ==
    \A c \in Callers :
        Expunged(c) => \A m \in Others(c) : m \in mbox[op[c].folder]

\* a permanent delete has removed the named message and left another one,
\* not marked deleted, in the folder
C36_OtherKept ==
    \E c \in Callers :
        /\ Expunged(c) /\ op[c].name = "DeleteEmail" /\ op[c].flag
        /\ Target(c) # {} /\ Target(c) \cap mbox[op[c].folder] = {}
        /\ \E m \in Others(c) : m \in mbox[op[c].folder]

\* the messages that did not carry \Deleted stay
ExpungeKeepsUnmarked ==
    \A c \in Callers :
        Expunged(c) =>
            \A m \in Others(c) : DeletedFlag \notin m.flags => m \in mbox[op[c].folder]

\* ---------------------------------------------------------------- C37
TrashFolders == {"Deleted Messages", "Trash"}

\* the copies of message o in the two trash folders
TrashCopies(o) == {<<f, m>> \in TrashFolders \X UNION {mbox[f] : f \in TrashFolders} :
                      m \in mbox[f] /\ m.mid = o.mid}

\* a delete to trash, from a folder that is not a trash folder, has
\* returned success
Trashed(c) ==
    /\ pc[c] = "ret" /\ TrashDelete(c) /\ res[c].err = ""
    /\ op[c].folder \notin TrashFolders

\* C37: when delete with permanent=false returns success, the message is no
\* longer in the source folder and exactly one copy of it exists across
\* "Deleted Messages" and "Trash", whatever steps failed in the two attempts
C37_OneTrashCopy ==
    \A c \in Callers :
        Trashed(c) =>
            \A o \in Target(c) :
                /\ ~Holds(op[c].folder, o)
                /\ Cardinality(TrashCopies(o)) = 1

\* the second attempt has put the message in "Trash" after the first one
\* failed without leaving a copy
C37_SecondAttemptOnly ==
    \E c \in Callers :
        /\ Trashed(c) /\ SelectsUpTo(c, Len(trace[c])) = 2
        /\ \E o \in Target(c) :
              /\ ~Holds(op[c].folder, o) /\ ~Holds("Deleted Messages", o)
              /\ Holds("Trash", o)

\* a successful delete to trash leaves the source without the message and
\* one or two copies in the trash folders
TrashCopiesOneOrTwo ==
    \A c \in Callers :
        Trashed(c) =>
            \A o \in Target(c) :
                /\ ~Holds(op[c].folder, o)
                /\ Cardinality(TrashCopies(o)) \in {1, 2}

\* ---------------------------------------------------------------- C38
\* SaveDraft has returned a draft identifier to caller c
DraftSaved(c) == pc[c] = "ret" /\ op[c].name = "SaveDraft" /\ res[c].err = ""

\* the draft that the call of caller c appended
Appended(c) == mbox[op[c].to] \ pre[op[c].to]

\* C38: the identifier returned by SaveDraft is the UID of the draft just
\* appended, so that getEmail(draftFolder, id) retrieves that draft,
\* whatever appends and removals the draft folder has seen
C38_DraftIdIsUid ==
    \A c \in Callers :
        DraftSaved(c) =>
            \E m \in Appended(c) :
                /\ ParseUID(res[c].out[1]).ok
                /\ ParseUID(res[c].out[1]).uid = m.uid

\* in a draft folder that never lost a message the identifier returned is
\* the UID of the draft
C38_NewFolder ==
    \E c \in Callers :
        /\ DraftSaved(c) /\ pre[op[c].to] = {}
        /\ \E m \in Appended(c) : m.uid = 1 /\ res[c].out[1] = <<"1">>

\* the identifier returned is the number of messages in the draft folder
DraftIdIsCount ==
    \A c \in Callers :
        DraftSaved(c) => res[c].out[1] = FormatUID(Cardinality(mbox[op[c].to]))

\* ---------------------------------------------------------------- C39
\* SaveDraft has returned an error to caller c
DraftFailed(c) == pc[c] = "ret" /\ op[c].name = "SaveDraft" /\ res[c].err # ""

\* no folder holds a message that it did not hold when the call began
NothingAdded == \A f \in Folders : Uids(mbox[f]) \subseteq Uids(pre[f])

\* C39: if SaveDraft returns an error (listing, reply-target lookup, append
\* or final folder selection failed), no draft has been added, so a retry
\* after an error never duplicates a draft
C39_ErrorAddsNoDraft == \A c \in Callers : DraftFailed(c) => NothingAdded

\* SaveDraft has returned the error of a failed append and no draft was added
C39_AppendFailed ==
    \E c \in Callers :
        /\ DraftFailed(c) /\ res[c].err = "failed to append draft" /\ NothingAdded
        /\ trace[c][Len(trace[c])].cmd = "Append"

\* an error of any step before the final folder selection adds no draft
EarlyErrorAddsNoDraft ==
    \A c \in Callers :
        (DraftFailed(c) /\ res[c].err # "failed to select draft folder") => NothingAdded

\* ---------------------------------------------------------------- C40
\* caller c asked for a flag with a valid type other than "none"
Flagging(c) ==
    /\ op[c].name \in {"FlagEmail", "FlagEmailHandler"}
    /\ pc[c] \in {"fl_select", "fl_store", "ret"}
    /\ op[c].ftype # "none"

\* the markers that the request of caller c names
Markers(c) ==
    {FlaggedFlag, TypeKeyword(op[c].ftype)}
    \cup (IF op[c].color = "" THEN {} ELSE {ColorKeyword(op[c].color)})

StoresOf(c) == {i \in 1..Len(trace[c]) : trace[c][i].cmd = "UidStore"}

\* C40: flag with a valid type other than "none" issues one add-markers
\* command with exactly \Flagged, the type's keyword and the color's keyword
\* if and only if a color is given; it never removes a marker, so a second
\* flag leaves the keywords of the first in place beside its own
C40_FlagAdditive ==
    \A c \in Callers :
        Flagging(c) =>
            /\ Cardinality(StoresOf(c)) <= 1
            /\ \A o \in Target(c) :
                  \E m \in mbox[op[c].folder] :
                      /\ m.uid = o.uid
                      /\ IF pc[c] = "ret" /\ res[c].err = ""
                         THEN /\ StoresOf(c) = {Len(trace[c])}
                              /\ m.flags = o.flags \cup Markers(c)
                         ELSE m.flags = o.flags

\* a message flagged important and red has then been flagged deadline and
\* blue, and carries the keywords of both
C40_BothFlags ==
    \E c \in Callers :
        /\ Flagging(c) /\ pc[c] = "ret" /\ res[c].err = ""
        /\ op[c].ftype = "deadline" /\ op[c].color = "blue"
        /\ \E o \in Target(c) :
              /\ o.flags = {FlaggedFlag, "$Important", "$FlagRed"}
              /\ \E m \in mbox[op[c].folder] :
                    /\ m.uid = o.uid
                    /\ m.flags = {FlaggedFlag, "$Important", "$FlagRed",
                                  "$Deadline", "$FlagBlue"}
====
